---------------------------- MODULE Spec2Model ----------------------------
(***************************************************************************)
(* Model of the generator-expression evaluator                             *)
(* (Source/cmGeneratorExpressionEvaluator.cxx).                            *)
(*                                                                         *)
(* Strings are sequences of one-character strings, so that concatenation,  *)
(* prefix tests, character classes and number parsing are computed as the  *)
(* code computes them.  An evaluator (AST node) is a record: a Text leaf   *)
(* or a Content node with identifier children and parameter children.      *)
(*                                                                         *)
(* The evaluation of one expression is one action.  The recursive          *)
(* operators below thread a record st through every call:                  *)
(*   st.ctx    the cmGeneratorExpressionContext of the running evaluation  *)
(*   st.errno  the C library's errno (process wide)                        *)
(*   st.msgs   the messages handed to cmake::IssueMessage                  *)
(*   st.seen   the Seen table of the top DAG frame                         *)
(*   st.cid    the number of the running context, st.nctx the number of    *)
(*             contexts made so far                                        *)
(*   st.failedAssert  an assert of the code has failed                     *)
(*   st.undefined  what a read through a null pointer does in this build   *)
(*   st.fault  the process has faulted                                     *)
(*   st.sources  the external object sources created in the directory      *)
(*   st.registry  the identifiers that the lookups of this evaluation find *)
(*             in GetNode's static nodeMap                                 *)
(*   st.log    the history of the evaluation: one entry when a Content     *)
(*             node is entered ("enter"), when an operator's Evaluate is   *)
(*             invoked ("invoke"), when a DAG frame is pushed ("frame")    *)
(*             and when the property of that frame is read ("expand"),     *)
(*             when the evaluation of a property value or of the linked    *)
(*             targets has returned ("sub"), when a link-interface         *)
(*             dependent property is read ("consult") and when a Content   *)
(*             node returns ("return")                                     *)
(*                                                                         *)
(* registry is the set of identifiers inserted into the static nodeMap so  *)
(* far, and threads the state of the threads that evaluate in parallel     *)
(* with contexts of their own (SpecThreads); in the other specifications   *)
(* the caller's thread is the only one that evaluates.                     *)
(***************************************************************************)
EXTENDS Integers, Sequences, FiniteSets, TLC

VARIABLES Makefile, errno, pc, expr, parentDag, context, Output, messages, log,
          registry, threads

vars == <<Makefile, errno, pc, expr, parentDag, context, Output, messages, log,
          registry, threads>>

(***************************************************************************)
(* Bounds of the model.                                                    *)
(***************************************************************************)
\* Largest number of parameter groups of a generated Content node.
MaxParams == 3

(***************************************************************************)
(* String literals.                                                        *)
(***************************************************************************)
Empty == <<>>
s0 == <<"0">>
s1 == <<"1">>
sComma == <<",">>
sSemi == <<";">>
sAngleR == <<">">>
\* The names and values the code and the inputs spell out, by name.
Str ==
  [sAND |-> <<"A","N","D">>,
   sOR |-> <<"O","R">>,
   sNOT |-> <<"N","O","T">>,
   sIF |-> <<"I","F">>,
   sBOOL |-> <<"B","O","O","L">>,
   sSTREQUAL |-> <<"S","T","R","E","Q","U","A","L">>,
   sEQUAL |-> <<"E","Q","U","A","L">>,
   sLOWER_CASE |-> <<"L","O","W","E","R","_","C","A","S","E">>,
   sUPPER_CASE |-> <<"U","P","P","E","R","_","C","A","S","E">>,
   sMAKE_C_IDENTIFIER |-> <<"M","A","K","E","_","C","_","I","D","E","N","T","I","F","I","E","R">>,
   sANGLE_R |-> <<"A","N","G","L","E","-","R">>,
   sCOMMA |-> <<"C","O","M","M","A">>,
   sSEMICOLON |-> <<"S","E","M","I","C","O","L","O","N">>,
   sC_COMPILER_ID |-> <<"C","_","C","O","M","P","I","L","E","R","_","I","D">>,
   sCXX_COMPILER_ID |-> <<"C","X","X","_","C","O","M","P","I","L","E","R","_","I","D">>,
   sVERSION_GREATER |-> <<"V","E","R","S","I","O","N","_","G","R","E","A","T","E","R">>,
   sVERSION_LESS |-> <<"V","E","R","S","I","O","N","_","L","E","S","S">>,
   sVERSION_EQUAL |-> <<"V","E","R","S","I","O","N","_","E","Q","U","A","L">>,
   sVERSION_LESS_EQUAL |-> <<"V","E","R","S","I","O","N","_","L","E","S","S","_","E","Q","U","A","L">>,
   sVERSION_GREATER_EQUAL |-> <<"V","E","R","S","I","O","N","_","G","R","E","A","T","E","R","_","E","Q","U","A","L">>,
   sC_COMPILER_VERSION |-> <<"C","_","C","O","M","P","I","L","E","R","_","V","E","R","S","I","O","N">>,
   sCXX_COMPILER_VERSION |-> <<"C","X","X","_","C","O","M","P","I","L","E","R","_","V","E","R","S","I","O","N">>,
   sPLATFORM_ID |-> <<"P","L","A","T","F","O","R","M","_","I","D">>,
   sCOMPILE_FEATURES |-> <<"C","O","M","P","I","L","E","_","F","E","A","T","U","R","E","S">>,
   sCONFIGURATION |-> <<"C","O","N","F","I","G","U","R","A","T","I","O","N">>,
   sCONFIG |-> <<"C","O","N","F","I","G">>,
   sTARGET_FILE |-> <<"T","A","R","G","E","T","_","F","I","L","E">>,
   sTARGET_LINKER_FILE |-> <<"T","A","R","G","E","T","_","L","I","N","K","E","R","_","F","I","L","E">>,
   sTARGET_SONAME_FILE |-> <<"T","A","R","G","E","T","_","S","O","N","A","M","E","_","F","I","L","E">>,
   sTARGET_PROPERTY |-> <<"T","A","R","G","E","T","_","P","R","O","P","E","R","T","Y">>,
   sTARGET_NAME |-> <<"T","A","R","G","E","T","_","N","A","M","E">>,
   sTARGET_OBJECTS |-> <<"T","A","R","G","E","T","_","O","B","J","E","C","T","S">>,
   sTARGET_POLICY |-> <<"T","A","R","G","E","T","_","P","O","L","I","C","Y">>,
   sBUILD_INTERFACE |-> <<"B","U","I","L","D","_","I","N","T","E","R","F","A","C","E">>,
   sINSTALL_INTERFACE |-> <<"I","N","S","T","A","L","L","_","I","N","T","E","R","F","A","C","E">>,
   sINSTALL_PREFIX |-> <<"I","N","S","T","A","L","L","_","P","R","E","F","I","X">>,
   sJOIN |-> <<"J","O","I","N">>,
   sLINK_ONLY |-> <<"L","I","N","K","_","O","N","L","Y">>,
   s_NAME |-> <<"_","N","A","M","E">>,
   s_DIR |-> <<"_","D","I","R">>,
   sINTERFACE_ |-> <<"I","N","T","E","R","F","A","C","E","_">>,
   sINCLUDE_DIRECTORIES |-> <<"I","N","C","L","U","D","E","_","D","I","R","E","C","T","O","R","I","E","S">>,
   sSYSTEM_INCLUDE_DIRECTORIES |-> <<"S","Y","S","T","E","M","_","I","N","C","L","U","D","E","_","D","I","R","E","C","T","O","R","I","E","S">>,
   sCOMPILE_DEFINITIONS |-> <<"C","O","M","P","I","L","E","_","D","E","F","I","N","I","T","I","O","N","S">>,
   sCOMPILE_DEFINITIONS_ |-> <<"C","O","M","P","I","L","E","_","D","E","F","I","N","I","T","I","O","N","S","_">>,
   sCOMPILE_OPTIONS |-> <<"C","O","M","P","I","L","E","_","O","P","T","I","O","N","S">>,
   sAUTOUIC_OPTIONS |-> <<"A","U","T","O","U","I","C","_","O","P","T","I","O","N","S">>,
   sSOURCES |-> <<"S","O","U","R","C","E","S">>,
   sLINK_LIBRARIES |-> <<"L","I","N","K","_","L","I","B","R","A","R","I","E","S">>,
   sALIASED_TARGET |-> <<"A","L","I","A","S","E","D","_","T","A","R","G","E","T">>,
   sLINKER_LANGUAGE |-> <<"L","I","N","K","E","R","_","L","A","N","G","U","A","G","E">>,
   sDebug |-> <<"D","e","b","u","g">>,
   sdebug |-> <<"d","e","b","u","g">>,
   sDEBUG_MODE |-> <<"D","E","B","U","G","_","M","O","D","E">>,
   srelease_x |-> <<"r","e","l","e","a","s","e",";","x">>,
   sRelease |-> <<"R","e","l","e","a","s","e">>,
   sMAP_IMPORTED_CONFIG_ |-> <<"M","A","P","_","I","M","P","O","R","T","E","D","_","C","O","N","F","I","G","_">>,
   sPOSITION_INDEPENDENT_CODE |-> <<"P","O","S","I","T","I","O","N","_","I","N","D","E","P","E","N","D","E","N","T","_","C","O","D","E">>,
   sCOMPILE_LANGUAGE |-> <<"C","O","M","P","I","L","E","_","L","A","N","G","U","A","G","E">>,
   sAUTOGEN_TARGET_DEPENDS |-> <<"A","U","T","O","G","E","N","_","T","A","R","G","E","T","_","D","E","P","E","N","D","S">>,
   sx |-> <<"x">>,
   sDash |-> <<"-">>,
   sFOO |-> <<"F","O","O">>,
   sGNU |-> <<"G","N","U">>,
   sgnu |-> <<"g","n","u">>,
   sClang |-> <<"C","l","a","n","g">>,
   sclang |-> <<"c","l","a","n","g">>,
   slinux |-> <<"l","i","n","u","x">>,
   s1_2 |-> <<"1",".","2">>,
   s1_2_0 |-> <<"1",".","2",".","0">>,
   sc_restrict |-> <<"c","_","r","e","s","t","r","i","c","t">>,
   scxx_auto_type |-> <<"c","x","x","_","a","u","t","o","_","t","y","p","e">>,
   scxx_constexpr |-> <<"c","x","x","_","c","o","n","s","t","e","x","p","r">>,
   sCXX |-> <<"C","X","X">>,
   s11 |-> <<"1","1">>,
   sLinux |-> <<"L","i","n","u","x">>,
   sCMP0003 |-> <<"C","M","P","0","0","0","3">>,
   sCMP0020 |-> <<"C","M","P","0","0","2","0">>,
   sCMP0022 |-> <<"C","M","P","0","0","2","2">>,
   sC |-> <<"C">>,
   sIID |-> <<"I","N","T","E","R","F","A","C","E","_","I","N","C","L","U","D","E","_","D","I","R","E","C","T","O","R","I","E","S">>]

(***************************************************************************)
(* Characters.                                                             *)
(***************************************************************************)
UpperLetters == {"A","B","C","D","E","F","G","H","I","J","K","L","M","N","O","P","Q","R","S","T","U","V","W","X","Y","Z"}
LowerLetters == {"a","b","c","d","e","f","g","h","i","j","k","l","m","n","o","p","q","r","s","t","u","v","w","x","y","z"}
Digits == {"0","1","2","3","4","5","6","7","8","9"}

\* The character class [A-Za-z0-9_] of the validators.
IsWordChar(c) == c \in UpperLetters \cup LowerLetters \cup Digits \cup {"_"}

\* s starts with the literal prefix p.
cmHasLiteralPrefix(s, p) == Len(s) >= Len(p) /\ SubSeq(s, 1, Len(p)) = p

(***************************************************************************)
(* The AST.                                                                *)
(***************************************************************************)
Text(s) == [type |-> "Text", text |-> s, ident |-> <<>>, params |-> <<>>]
Content(id, ps) == [type |-> "Content", text |-> <<>>, ident |-> id, params |-> ps]

\* A Content node whose identifier is the literal text id.
Op(id, ps) == Content(<<Text(id)>>, ps)

(***************************************************************************)
(* The node registry and the node descriptors.                             *)
(***************************************************************************)
NullNode == "null"

\* The static nodeMap that GetNode fills on its first call.
nodeMap ==
  (s0 :> "zeroNode") @@ (s1 :> "oneNode") @@ (Str.sAND :> "andNode") @@
  (Str.sOR :> "orNode") @@ (Str.sNOT :> "notNode") @@
  (Str.sC_COMPILER_ID :> "cCompilerIdNode") @@
  (Str.sCXX_COMPILER_ID :> "cxxCompilerIdNode") @@
  (Str.sVERSION_GREATER :> "versionGreaterNode") @@
  (Str.sVERSION_LESS :> "versionLessNode") @@
  (Str.sVERSION_EQUAL :> "versionEqualNode") @@
  (Str.sC_COMPILER_VERSION :> "cCompilerVersionNode") @@
  (Str.sCXX_COMPILER_VERSION :> "cxxCompilerVersionNode") @@
  (Str.sPLATFORM_ID :> "platformIdNode") @@
  (Str.sCOMPILE_FEATURES :> "compileFeaturesNode") @@
  (Str.sCONFIGURATION :> "configurationNode") @@
  (Str.sCONFIG :> "configurationTestNode") @@
  (Str.sTARGET_FILE :> "targetFileNode") @@
  (Str.sTARGET_LINKER_FILE :> "targetLinkerFileNode") @@
  (Str.sTARGET_SONAME_FILE :> "targetSoNameFileNode") @@
  (Str.sTARGET_FILE \o Str.s_NAME :> "targetFileNameNode") @@
  (Str.sTARGET_LINKER_FILE \o Str.s_NAME :> "targetLinkerFileNameNode") @@
  (Str.sTARGET_SONAME_FILE \o Str.s_NAME :> "targetSoNameFileNameNode") @@
  (Str.sTARGET_FILE \o Str.s_DIR :> "targetFileDirNode") @@
  (Str.sTARGET_LINKER_FILE \o Str.s_DIR :> "targetLinkerFileDirNode") @@
  (Str.sTARGET_SONAME_FILE \o Str.s_DIR :> "targetSoNameFileDirNode") @@
  (Str.sSTREQUAL :> "strEqualNode") @@ (Str.sEQUAL :> "equalNode") @@
  (Str.sLOWER_CASE :> "lowerCaseNode") @@ (Str.sUPPER_CASE :> "upperCaseNode") @@
  (Str.sMAKE_C_IDENTIFIER :> "makeCIdentifierNode") @@
  (Str.sBOOL :> "boolNode") @@ (Str.sANGLE_R :> "angle_rNode") @@
  (Str.sCOMMA :> "commaNode") @@ (Str.sSEMICOLON :> "semicolonNode") @@
  (Str.sTARGET_PROPERTY :> "targetPropertyNode") @@
  (Str.sTARGET_NAME :> "targetNameNode") @@
  (Str.sTARGET_OBJECTS :> "targetObjectsNode") @@
  (Str.sTARGET_POLICY :> "targetPolicyNode") @@
  (Str.sBUILD_INTERFACE :> "buildInterfaceNode") @@
  (Str.sINSTALL_INTERFACE :> "installInterfaceNode") @@
  (Str.sINSTALL_PREFIX :> "installPrefixNode") @@
  (Str.sJOIN :> "joinNode") @@ (Str.sLINK_ONLY :> "linkOnlyNode")

\* The identifiers in the order in which GetNode inserts them into the empty
\* nodeMap.
Registration ==
  <<s0, s1, Str.sAND, Str.sOR, Str.sNOT, Str.sC_COMPILER_ID,
    Str.sCXX_COMPILER_ID, Str.sVERSION_GREATER, Str.sVERSION_LESS,
    Str.sVERSION_EQUAL, Str.sC_COMPILER_VERSION, Str.sCXX_COMPILER_VERSION,
    Str.sPLATFORM_ID, Str.sCOMPILE_FEATURES, Str.sCONFIGURATION, Str.sCONFIG,
    Str.sTARGET_FILE, Str.sTARGET_LINKER_FILE, Str.sTARGET_SONAME_FILE,
    Str.sTARGET_FILE \o Str.s_NAME, Str.sTARGET_LINKER_FILE \o Str.s_NAME,
    Str.sTARGET_SONAME_FILE \o Str.s_NAME, Str.sTARGET_FILE \o Str.s_DIR,
    Str.sTARGET_LINKER_FILE \o Str.s_DIR,
    Str.sTARGET_SONAME_FILE \o Str.s_DIR, Str.sSTREQUAL, Str.sEQUAL,
    Str.sLOWER_CASE, Str.sUPPER_CASE, Str.sMAKE_C_IDENTIFIER, Str.sBOOL,
    Str.sANGLE_R, Str.sCOMMA, Str.sSEMICOLON, Str.sTARGET_PROPERTY,
    Str.sTARGET_NAME, Str.sTARGET_OBJECTS, Str.sTARGET_POLICY,
    Str.sBUILD_INTERFACE, Str.sINSTALL_INTERFACE, Str.sINSTALL_PREFIX,
    Str.sJOIN, Str.sLINK_ONLY>>

\* The node registered for the identifier, or null.
GetNode(identifier) ==
  IF identifier \in DOMAIN nodeMap THEN nodeMap[identifier] ELSE NullNode

\* The enum of cmGeneratorExpressionNode.
DynamicParameters == 0
OneOrMoreParameters == -1
OneOrZeroParameters == -2

TargetFilesystemArtifactNodes ==
  {"targetFileNode", "targetLinkerFileNode", "targetSoNameFileNode",
   "targetFileNameNode", "targetLinkerFileNameNode", "targetSoNameFileNameNode",
   "targetFileDirNode", "targetLinkerFileDirNode", "targetSoNameFileDirNode"}

\* zeroNode and installInterfaceNode are ZeroNode; every other node keeps the
\* default of the base class.
GeneratesContent(node) == node \notin {"zeroNode", "installInterfaceNode"}

RequiresLiteralInput(node) == node = "targetNameNode"

\* The override of ZeroNode left out.
AcceptsArbitraryContentOfOneNodes(node) ==
  node \in {"oneNode", "buildInterfaceNode", "lowerCaseNode", "upperCaseNode",
            "makeCIdentifierNode", "joinNode", "targetNameNode"}

AcceptsArbitraryContentParameter(node) ==
  node \in {"zeroNode", "installInterfaceNode", "oneNode", "buildInterfaceNode",
            "lowerCaseNode", "upperCaseNode", "makeCIdentifierNode",
            "joinNode", "targetNameNode"}

NumExpectedParameters(node) ==
  CASE node \in {"andNode", "orNode", "targetPropertyNode", "compileFeaturesNode"}
         -> OneOrMoreParameters
    [] node \in {"cCompilerIdNode", "cxxCompilerIdNode", "cCompilerVersionNode",
                 "cxxCompilerVersionNode", "platformIdNode",
                 "configurationTestNode"}
         -> OneOrZeroParameters
    [] node \in {"strEqualNode", "equalNode", "versionGreaterNode",
                 "versionLessNode", "versionEqualNode", "joinNode"}
         -> 2
    [] node \in {"angle_rNode", "commaNode", "semicolonNode",
                 "configurationNode", "installPrefixNode"}
         -> 0
    [] OTHER -> 1

(***************************************************************************)
(* The evaluation state and the error reporter.                            *)
(***************************************************************************)
NullTarget == <<>>

\* A cmGeneratorExpressionContext as its constructor leaves it.
NewContext(config, quiet, headTarget, currentTarget, forBuildsystem) ==
  [HadError |-> FALSE,
   HadContextSensitiveCondition |-> FALSE,
   Quiet |-> quiet,
   Config |-> config,
   HeadTarget |-> headTarget,
   CurrentTarget |-> currentTarget,
   EvaluateForBuildsystem |-> forBuildsystem,
   SeenTargetProperties |-> {},
   AllTargets |-> {},
   DependTargets |-> {},
   MaxLanguageStandard |-> {}]

Logged(st, entry) == [st EXCEPT !.log = Append(@, entry)]

\* An entry of the history: what happened (ev, note), at which node, with
\* which identifier or target (id), parameters and result, in which context
\* (cid) and with which value of HadError.
LogEntry(ev, note, node, id, ps, out, st) ==
  [ev |-> ev, note |-> note, node |-> node, id |-> id, params |-> ps,
   out |-> out, cid |-> st.cid, err |-> st.ctx.HadError]

\* cmake::IssueMessage
IssueMessage(st, kind, text) ==
  [st EXCEPT !.msgs = Append(@, [kind |-> kind, text |-> text])]

reportError(st, result) ==
  LET st1 == [st EXCEPT !.ctx.HadError = TRUE]
  IN IF st.ctx.Quiet THEN st1 ELSE IssueMessage(st1, "FATAL_ERROR", result)

\* What an evaluation hands back: the string and the state it leaves.
Ret(out, st) == [out |-> out, st |-> st]

\* A local variable of the code: the value v, a record, is computed first and
\* the statements Rest that follow its initialisation see it under the name
\* that Rest gives it.
Bind(v, Rest(_)) == CASE DOMAIN v # {} -> Rest(v)

(***************************************************************************)
(* The DAG checker handed down the evaluation: the frames from the top     *)
(* frame to the current one; the empty sequence is the null pointer.       *)
(***************************************************************************)
NullDag == <<>>

RECURSIVE Evaluate(_, _, _)
RECURSIVE EvaluateChildren(_, _, _, _)
RECURSIVE EvaluateParameterGroups(_, _, _, _, _, _, _)
RECURSIVE ArbitraryContentChildren(_, _, _, _, _, _)
RECURSIVE ArbitraryContentGroups(_, _, _, _, _, _, _)
RECURSIVE ProcessArbitraryContent(_, _, _, _, _, _)
RECURSIVE EvaluateParameters(_, _, _, _, _)
RECURSIVE NodeEvaluate(_, _, _, _)
RECURSIVE ContentEvaluate(_, _, _)
RECURSIVE EvaluateContent(_, _, _)

(***************************************************************************)
(* Operators (the Evaluate method of each node).                           *)
(***************************************************************************)
\* BOOLEAN_OP_NODE: the loop over the parameters, from index i on.
RECURSIVE BooleanOpLoop(_, _, _, _, _)
BooleanOpLoop(parameters, i, successValue, failureValue, st) ==
  IF i > Len(parameters) THEN Ret(successValue, st)
  ELSE IF parameters[i] = failureValue THEN Ret(failureValue, st)
  ELSE IF parameters[i] # successValue
       THEN Ret(Empty, reportError(st, "Parameters must resolve to either '0' or '1'."))
  ELSE BooleanOpLoop(parameters, i + 1, successValue, failureValue, st)

andNodeEvaluate(parameters, st) == BooleanOpLoop(parameters, 1, s1, s0, st)

orNodeEvaluate(parameters, st) == BooleanOpLoop(parameters, 1, s0, s1, st)

\* NotNode::Evaluate without the return after reportError.
notNodeEvaluateFallsThrough(parameters, st) ==
  Ret(IF parameters[1] = s0 THEN s1 ELSE s0,
      IF parameters[1] # s0 /\ parameters[1] # s1
      THEN reportError(st, "$<NOT> parameter must resolve to exactly one '0' or '1' value.")
      ELSE st)

notNodeEvaluate(parameters, st) ==
  IF parameters[1] # s0 /\ parameters[1] # s1
  THEN Ret(Empty, reportError(st, "$<NOT> parameter must resolve to exactly one '0' or '1' value."))
  ELSE Ret(IF parameters[1] = s0 THEN s1 ELSE s0, st)

strEqualNodeEvaluate(parameters, st) ==
  Ret(IF parameters[1] = parameters[2] THEN s1 ELSE s0, st)

installPrefixNodeEvaluate(parameters, st) ==
  Ret(Empty, reportError(st, "INSTALL_PREFIX is a marker for install(EXPORT) only."))

(***************************************************************************)
(* $<EQUAL:a,b> and the C library's strtol.                                *)
(***************************************************************************)
\* The largest long (a build whose long has 32 bits) and errno's ERANGE.
LONG_MAX == 2147483647
LONG_MIN == (-LONG_MAX) - 1
ERANGE == 34

DigitValue ==
  ("0" :> 0) @@ ("1" :> 1) @@ ("2" :> 2) @@ ("3" :> 3) @@ ("4" :> 4) @@
  ("5" :> 5) @@ ("6" :> 6) @@ ("7" :> 7) @@ ("8" :> 8) @@ ("9" :> 9) @@
  ("a" :> 10) @@ ("b" :> 11) @@ ("c" :> 12) @@ ("d" :> 13) @@ ("e" :> 14) @@
  ("f" :> 15) @@ ("A" :> 10) @@ ("B" :> 11) @@ ("C" :> 12) @@ ("D" :> 13) @@
  ("E" :> 14) @@ ("F" :> 15)

IsDigitOf(c, base) == c \in DOMAIN DigitValue /\ DigitValue[c] < base

\* The first index from i on that holds no white space.
RECURSIVE SkipSpaces(_, _)
SkipSpaces(str, i) ==
  IF i <= Len(str) /\ str[i] = " " THEN SkipSpaces(str, i + 1) ELSE i

\* The digit loop of strtol.  The value is accumulated as a negative number,
\* so that the magnitude of LONG_MIN fits; once the next digit would pass
\* limit the conversion has overflowed and the remaining digits are only
\* consumed.
RECURSIVE AccumulateDigits(_, _, _, _, _, _)
AccumulateDigits(str, i, base, acc, limit, overflow) ==
  IF i > Len(str) \/ ~IsDigitOf(str[i], base)
  THEN [next |-> i, acc |-> acc, overflow |-> overflow]
  ELSE LET d == DigitValue[str[i]]
           fits == ~overflow /\ acc >= ((limit + d) + (base - 1)) \div base
       IN AccumulateDigits(str, i + 1, base,
                           IF fits THEN (acc * base) - d ELSE acc,
                           limit, ~fits)

\* strtol(str, &pEnd, base): val is the result, end the number of characters
\* before pEnd (0: no conversion), errno the value of errno afterwards.
strtol(str, base, errnoBefore) ==
  LET Converted(neg, hexPrefix, i2, start, d) ==
        IF d.next = start
        THEN [val |-> 0, end |-> IF hexPrefix THEN i2 ELSE 0,
              errno |-> errnoBefore]
        ELSE IF d.overflow
        THEN [val |-> IF neg THEN LONG_MIN ELSE LONG_MAX, end |-> d.next - 1,
              errno |-> ERANGE]
        ELSE [val |-> IF neg THEN d.acc ELSE -d.acc, end |-> d.next - 1,
              errno |-> errnoBefore]
      FromDigits(neg, hexPrefix, i2, b, start) ==
        Converted(neg, hexPrefix, i2, start,
                  AccumulateDigits(str, start, b, 0,
                                   IF neg THEN LONG_MIN ELSE -LONG_MAX, FALSE))
      FromPrefix(neg, hexPrefix, i2) ==
        FromDigits(neg, hexPrefix, i2,
                   IF base # 0 THEN base
                   ELSE IF hexPrefix THEN 16
                   ELSE IF i2 <= Len(str) /\ str[i2] = "0" THEN 8
                   ELSE 10,
                   IF hexPrefix THEN i2 + 2 ELSE i2)
      FromSign(neg, i2) ==
        FromPrefix(neg,
                   /\ base \in {0, 16}
                   /\ i2 + 1 <= Len(str)
                   /\ str[i2] = "0"
                   /\ str[i2 + 1] \in {"x", "X"},
                   i2)
      FromSpaces(i1) ==
        FromSign(i1 <= Len(str) /\ str[i1] = "-",
                 IF i1 <= Len(str) /\ str[i1] \in {"-", "+"} THEN i1 + 1 ELSE i1)
  IN FromSpaces(SkipSpaces(str, 1))

Drop(str, n) == SubSeq(str, n + 1, Len(str))

\* One parameter of $<EQUAL>: the three prefix tests, each on what the one
\* before left, then strtol and the validity test.
EqualParameter(parameter, errnoBefore) ==
  LET Checked(p, r) ==
        [valid |-> ~(r.end = 0 \/ r.end # Len(p.s) \/ r.errno = ERANGE),
         num |-> IF p.flipSign THEN -r.val ELSE r.val,
         errno |-> r.errno]
      Converted(p) == Checked(p, strtol(p.s, p.base, errnoBefore))
      PlusBinary(p) ==
        Converted(IF cmHasLiteralPrefix(p.s, <<"+","0","b">>)
                     \/ cmHasLiteralPrefix(p.s, <<"+","0","B">>)
                  THEN [s |-> Drop(p.s, 3), base |-> 2, flipSign |-> p.flipSign]
                  ELSE p)
      MinusBinary(p) ==
        PlusBinary(IF cmHasLiteralPrefix(p.s, <<"-","0","b">>)
                      \/ cmHasLiteralPrefix(p.s, <<"-","0","B">>)
                   THEN [s |-> Drop(p.s, 3), base |-> 2, flipSign |-> TRUE]
                   ELSE p)
  IN MinusBinary(IF cmHasLiteralPrefix(parameter, <<"0","b">>)
                    \/ cmHasLiteralPrefix(parameter, <<"0","B">>)
                 THEN [s |-> Drop(parameter, 2), base |-> 2, flipSign |-> FALSE]
                 ELSE [s |-> parameter, base |-> 0, flipSign |-> FALSE])

equalNodeEvaluate(parameters, st) ==
  LET Compared(lhs, rhs) ==
        IF ~lhs.valid
        THEN Ret(Empty, reportError([st EXCEPT !.errno = lhs.errno],
                                    "$<EQUAL> parameter is not a valid integer."))
        ELSE IF ~rhs.valid
        THEN Ret(Empty, reportError([st EXCEPT !.errno = rhs.errno],
                                    "$<EQUAL> parameter is not a valid integer."))
        ELSE Ret(IF lhs.num = rhs.num THEN s1 ELSE s0,
                 [st EXCEPT !.errno = rhs.errno])
      Right(lhs) == Compared(lhs, EqualParameter(parameters[2], lhs.errno))
  IN Right(EqualParameter(parameters[1], st.errno))

(***************************************************************************)
(* String helpers of cmSystemTools and cmGeneratorExpression.              *)
(***************************************************************************)
UpperOf ==
  ("a" :> "A") @@ ("b" :> "B") @@ ("c" :> "C") @@ ("d" :> "D") @@ ("e" :> "E") @@
  ("f" :> "F") @@ ("g" :> "G") @@ ("h" :> "H") @@ ("i" :> "I") @@ ("j" :> "J") @@
  ("k" :> "K") @@ ("l" :> "L") @@ ("m" :> "M") @@ ("n" :> "N") @@ ("o" :> "O") @@
  ("p" :> "P") @@ ("q" :> "Q") @@ ("r" :> "R") @@ ("s" :> "S") @@ ("t" :> "T") @@
  ("u" :> "U") @@ ("v" :> "V") @@ ("w" :> "W") @@ ("x" :> "X") @@ ("y" :> "Y") @@
  ("z" :> "Z")

RECURSIVE UpperCase(_)
UpperCase(str) ==
  IF str = <<>> THEN <<>>
  ELSE <<IF Head(str) \in DOMAIN UpperOf THEN UpperOf[Head(str)] ELSE Head(str)>>
       \o UpperCase(Tail(str))

\* cmsysString_strcasecmp(a, b) == 0
StrCaseEqual(a, b) == UpperCase(a) = UpperCase(b)

\* The elements of a ';'-separated list, empty elements included.
RECURSIVE SplitList(_, _)
SplitList(str, current) ==
  IF str = <<>> THEN <<current>>
  ELSE IF Head(str) = ";" THEN <<current>> \o SplitList(Tail(str), <<>>)
  ELSE SplitList(Tail(str), Append(current, Head(str)))

RECURSIVE DropEmpty(_)
DropEmpty(list) ==
  IF list = <<>> THEN <<>>
  ELSE IF Head(list) = <<>> THEN DropEmpty(Tail(list))
  ELSE <<Head(list)>> \o DropEmpty(Tail(list))

RECURSIVE JoinList(_, _)
JoinList(list, sep) ==
  IF list = <<>> THEN <<>>
  ELSE IF Len(list) = 1 THEN Head(list)
  ELSE Head(list) \o sep \o JoinList(Tail(list), sep)

\* cmSystemTools::ExpandListArgument: the non-empty elements of the list.
ExpandListArgument(str) == DropEmpty(SplitList(str, <<>>))

\* cmGeneratorExpression::StripEmptyListElements
StripEmptyListElements(str) == JoinList(ExpandListArgument(str), sSemi)

\* A regular expression ^[A-Za-z0-9_]*$
MatchesWordChars(str) == \A i \in 1..Len(str) : IsWordChar(str[i])

\* cmGeneratorExpression::IsValidTargetName: ^[A-Za-z0-9_.:+-]+$
IsValidTargetName(str) ==
  /\ str # <<>>
  /\ \A i \in 1..Len(str) : IsWordChar(str[i]) \/ str[i] \in {".", ":", "+", "-"}

\* The text an evaluator was parsed from.
RECURSIVE Unparse(_)
RECURSIVE UnparseSeq(_)
RECURSIVE UnparseParams(_)
UnparseSeq(evaluators) ==
  IF evaluators = <<>> THEN <<>>
  ELSE Unparse(Head(evaluators)) \o UnparseSeq(Tail(evaluators))

UnparseParams(groups) ==
  IF groups = <<>> THEN <<>>
  ELSE IF Len(groups) = 1 THEN UnparseSeq(Head(groups))
  ELSE UnparseSeq(Head(groups)) \o sComma \o UnparseParams(Tail(groups))

Unparse(e) ==
  IF e.type = "Text" THEN e.text
  ELSE <<"$", "<">> \o UnparseSeq(e.ident)
       \o (IF e.params = <<>> THEN <<>> ELSE <<":">> \o UnparseParams(e.params))
       \o <<">">>

(***************************************************************************)
(* The build context (cmMakefile) and its targets (cmTarget).              *)
(*                                                                         *)
(* Makefile.targets maps a target name to a record:                        *)
(*   type, imported          the target's kind                             *)
(*   properties              name -> the parsed value (evaluators) of the  *)
(*                           properties that are set                       *)
(*   linkInterface           GetTransitivePropertyTargets                  *)
(*   linkImplementation      GetLinkImplementationLibraries (targets only) *)
(*   linkInterfaceDependent  name -> [kind, value] of the properties that  *)
(*                           are link-interface dependent                  *)
(*   policies                policy -> status, as recorded on the target   *)
(*   mappedConfig            GetMappedConfig finds a location              *)
(*   linkerLanguage          GetLinkerLanguage                             *)
(* Makefile.aliases maps an alias to the target it names,                  *)
(* Makefile.definitions is the definition store, Makefile.policies the     *)
(* directory's policy settings.                                            *)
(***************************************************************************)
IsAlias(name) == name \in DOMAIN Makefile.aliases

\* cmMakefile::FindTargetToUse: the name of the target, or null.
FindTargetToUse(name) ==
  IF name \in DOMAIN Makefile.aliases THEN Makefile.aliases[name]
  ELSE IF name \in DOMAIN Makefile.targets THEN name
  ELSE NullTarget

Target(name) == Makefile.targets[name]

HasProperty(target, name) == name \in DOMAIN Target(target).properties

\* cmTarget::GetProperty: the raw value of a property that is set.
GetProperty(target, name) == UnparseSeq(Target(target).properties[name])

\* cmGeneratorExpression::Parse of the raw value of a property that is set.
ParseProperty(target, name) == Target(target).properties[name]

GetSafeDefinition(key) ==
  IF key \in DOMAIN Makefile.definitions THEN Makefile.definitions[key] ELSE Empty

IsLinkInterfaceDependent(target, name, kind) ==
  /\ name \in DOMAIN Target(target).linkInterfaceDependent
  /\ Target(target).linkInterfaceDependent[name].kind = kind

GetLinkInterfaceDependent(target, name) ==
  Target(target).linkInterfaceDependent[name].value

(***************************************************************************)
(* Versions.                                                               *)
(***************************************************************************)
\* The numbers of a dot-separated version, the number before the first dot
\* begun as current: a component is read as a decimal number, an empty one
\* as 0.
RECURSIVE VersionComponents(_, _)
VersionComponents(str, current) ==
  IF str = <<>> THEN <<current>>
  ELSE IF Head(str) = "." THEN <<current>> \o VersionComponents(Tail(str), 0)
  ELSE VersionComponents(Tail(str), (current * 10) + DigitValue[Head(str)])

\* cmSystemTools::VersionCompare(op, lhs, rhs): the components compared one by
\* one, a missing component read as 0; the first pair that differs decides.
VersionCompare(op, lhss, rhss) ==
  LET lhs == VersionComponents(lhss, 0)
      rhs == VersionComponents(rhss, 0)
      At(v, i) == IF i <= Len(v) THEN v[i] ELSE 0
      differ == {i \in 1..(Len(lhs) + Len(rhs)) : At(lhs, i) # At(rhs, i)}
      first == CHOOSE i \in differ : \A j \in differ : i <= j
  IN IF differ = {} THEN op = "OP_EQUAL"
     ELSE IF At(lhs, first) < At(rhs, first) THEN op = "OP_LESS"
     ELSE op = "OP_GREATER"

\* VersionGreaterNode, VersionLessNode and VersionEqualNode: Evaluate, with
\* the operation each of them hands to VersionCompare.
versionNodeEvaluate(op, parameters, st) ==
  Ret(IF VersionCompare(op, parameters[1], parameters[2]) THEN s1 ELSE s0, st)

(***************************************************************************)
(* Configuration, compiler-id, policy and list operators.                  *)
(***************************************************************************)
\* The assignment left out.
SetContextSensitiveDropped(st) == st

\* context->HadContextSensitiveCondition = true;
SetContextSensitive(st) == [st EXCEPT !.ctx.HadContextSensitiveCondition = TRUE]

configurationNodeEvaluate(parameters, st) ==
  Ret(st.ctx.Config, SetContextSensitive(st))

\* ConfigurationTestNode::Evaluate with the name compared to the active
\* config and to the mapped configs as it is spelled.
configurationTestNodeEvaluateCaseSensitive(parameters, st) ==
  IF parameters = <<>> THEN configurationNodeEvaluate(parameters, st)
  ELSE IF ~MatchesWordChars(parameters[1])
  THEN Ret(Empty, reportError(st, "Expression syntax not recognized."))
  ELSE LET st1 == SetContextSensitive(st)
           current == st.ctx.CurrentTarget
           mapProp == Str.sMAP_IMPORTED_CONFIG_ \o UpperCase(st.ctx.Config)
       IN IF st.ctx.Config = <<>>
          THEN Ret(IF parameters[1] = <<>> THEN s1 ELSE s0, st1)
          ELSE IF parameters[1] = st.ctx.Config THEN Ret(s1, st1)
          ELSE IF /\ current # NullTarget
                  /\ Target(current).imported
                  /\ Target(current).mappedConfig
                  /\ HasProperty(current, mapProp)
          THEN Ret(IF \E i \in DOMAIN ExpandListArgument(GetProperty(current, mapProp)) :
                        ExpandListArgument(GetProperty(current, mapProp))[i]
                          = parameters[1]
                   THEN s1 ELSE s0, st1)
          ELSE Ret(s0, st1)

configurationTestNodeEvaluate(parameters, st) ==
  IF parameters = <<>> THEN configurationNodeEvaluate(parameters, st)
  ELSE IF ~MatchesWordChars(parameters[1])
  THEN Ret(Empty, reportError(st, "Expression syntax not recognized."))
  ELSE LET st1 == SetContextSensitive(st)
           current == st.ctx.CurrentTarget
           mapProp == Str.sMAP_IMPORTED_CONFIG_ \o UpperCase(st.ctx.Config)
       IN IF st.ctx.Config = <<>>
          THEN Ret(IF parameters[1] = <<>> THEN s1 ELSE s0, st1)
          ELSE IF StrCaseEqual(parameters[1], st.ctx.Config) THEN Ret(s1, st1)
          ELSE IF /\ current # NullTarget
                  /\ Target(current).imported
                  /\ Target(current).mappedConfig
                  /\ HasProperty(current, mapProp)
          THEN Ret(IF \E i \in DOMAIN ExpandListArgument(UpperCase(GetProperty(current, mapProp))) :
                        ExpandListArgument(UpperCase(GetProperty(current, mapProp)))[i]
                          = UpperCase(parameters[1])
                   THEN s1 ELSE s0, st1)
          ELSE Ret(s0, st1)

joinNodeEvaluate(parameters, st) ==
  Ret(JoinList(ExpandListArgument(parameters[1]), parameters[2]), st)

\* CompilerIdNode::EvaluateWithLanguage with a break after the warning of
\* the case WARN.
CompilerIdEvaluateWithLanguageWarnBreaks(parameters, st, lang) ==
  LET compilerId == GetSafeDefinition(lang)
  IN IF parameters = <<>> THEN Ret(compilerId, st)
     ELSE IF ~MatchesWordChars(parameters[1])
     THEN Ret(Empty, reportError(st, "Expression syntax not recognized."))
     ELSE IF parameters[1] = compilerId THEN Ret(s1, st)
     ELSE IF StrCaseEqual(parameters[1], compilerId)
     THEN CASE Makefile.policies.CMP0044 = "WARN"
                 -> Ret(s0, IssueMessage(st, "AUTHOR_WARNING", "CMP0044"))
            [] Makefile.policies.CMP0044 = "OLD" -> Ret(s1, st)
            [] OTHER -> Ret(s0, st)
     ELSE Ret(s0, st)

\* CompilerIdNode::EvaluateWithLanguage
CompilerIdEvaluateWithLanguage(parameters, st, lang) ==
  LET compilerId == GetSafeDefinition(lang)
  IN IF parameters = <<>> THEN Ret(compilerId, st)
     ELSE IF ~MatchesWordChars(parameters[1])
     THEN Ret(Empty, reportError(st, "Expression syntax not recognized."))
     ELSE IF parameters[1] = compilerId THEN Ret(s1, st)
     ELSE IF StrCaseEqual(parameters[1], compilerId)
     THEN CASE Makefile.policies.CMP0044 = "WARN"
                 -> Ret(s1, IssueMessage(st, "AUTHOR_WARNING", "CMP0044"))
            [] Makefile.policies.CMP0044 = "OLD" -> Ret(s1, st)
            [] OTHER -> Ret(s0, st)
     ELSE Ret(s0, st)

cCompilerIdNodeEvaluate(parameters, st) ==
  IF st.ctx.HeadTarget = NullTarget
  THEN Ret(Empty, reportError(st, "$<C_COMPILER_ID> may only be used with binary targets."))
  ELSE CompilerIdEvaluateWithLanguage(parameters, st, "CMAKE_C_COMPILER_ID")

cxxCompilerIdNodeEvaluate(parameters, st) ==
  IF st.ctx.HeadTarget = NullTarget
  THEN Ret(Empty, reportError(st, "$<CXX_COMPILER_ID> may only be used with binary targets."))
  ELSE CompilerIdEvaluateWithLanguage(parameters, st, "CMAKE_CXX_COMPILER_ID")

\* A regular expression ^[0-9\.]*$
MatchesVersionChars(str) == \A i \in 1..Len(str) : str[i] \in Digits \cup {"."}

\* CompilerVersionNode::EvaluateWithLanguage
CompilerVersionEvaluateWithLanguage(parameters, st, lang) ==
  LET compilerVersion == GetSafeDefinition(lang)
  IN IF parameters = <<>> THEN Ret(compilerVersion, st)
     ELSE IF ~MatchesVersionChars(parameters[1])
     THEN Ret(Empty, reportError(st, "Expression syntax not recognized."))
     ELSE Ret(IF VersionCompare("OP_EQUAL", parameters[1], compilerVersion)
              THEN s1 ELSE s0, st)

\* CCompilerVersionNode::Evaluate without the test of the head target.
cCompilerVersionNodeEvaluateAnywhere(parameters, st) ==
  CompilerVersionEvaluateWithLanguage(parameters, st, "CMAKE_C_COMPILER_VERSION")

cCompilerVersionNodeEvaluate(parameters, st) ==
  IF st.ctx.HeadTarget = NullTarget
  THEN Ret(Empty, reportError(st, "$<C_COMPILER_VERSION> may only be used with binary targets."))
  ELSE CompilerVersionEvaluateWithLanguage(parameters, st, "CMAKE_C_COMPILER_VERSION")

cxxCompilerVersionNodeEvaluate(parameters, st) ==
  IF st.ctx.HeadTarget = NullTarget
  THEN Ret(Empty, reportError(st, "$<CXX_COMPILER_VERSION> may only be used with binary targets."))
  ELSE CompilerVersionEvaluateWithLanguage(parameters, st, "CMAKE_CXX_COMPILER_VERSION")

\* The policies $<TARGET_POLICY> accepts (CM_FOR_EACH_TARGET_POLICY).
targetPolicyWhitelist ==
  {<<"C","M","P","0","0","0","3">>, <<"C","M","P","0","0","2","0">>,
   <<"C","M","P","0","0","2","2">>}

targetPolicyNodeEvaluate(parameters, st) ==
  IF st.ctx.HeadTarget = NullTarget
  THEN Ret(Empty, reportError(st, "$<TARGET_POLICY:prop> may only be used with binary targets."))
  ELSE LET st1 == SetContextSensitive(st)
           status == Target(st.ctx.HeadTarget).policies[parameters[1]]
       IN IF parameters[1] \in targetPolicyWhitelist
          THEN CASE status = "WARN"
                      -> Ret(s0, IssueMessage(st1, "AUTHOR_WARNING", "policy"))
                 [] status = "NEW" -> Ret(s1, st1)
                 [] OTHER -> Ret(s0, st1)
          ELSE Ret(Empty, reportError(st1, "$<TARGET_POLICY:prop> may only be used with a limited number of policies."))

(***************************************************************************)
(* The DAG checker (cmGeneratorExpressionDAGChecker).                      *)
(***************************************************************************)

\* CM_FOR_EACH_TRANSITIVE_PROPERTY_NAME
TransitivePropertyNames ==
  {Str.sINCLUDE_DIRECTORIES, Str.sSYSTEM_INCLUDE_DIRECTORIES, Str.sCOMPILE_DEFINITIONS,
   Str.sCOMPILE_OPTIONS, Str.sAUTOUIC_OPTIONS, Str.sSOURCES, Str.sCOMPILE_FEATURES,
   Str.sPOSITION_INDEPENDENT_CODE, Str.sCOMPILE_LANGUAGE, Str.sAUTOGEN_TARGET_DEPENDS}

targetPropertyTransitiveWhitelist ==
  {Str.sINTERFACE_ \o name : name \in TransitivePropertyNames}

DagFrame(target, property, transitiveOnly) ==
  [target |-> target, property |-> property,
   transitivePropertiesOnly |-> transitiveOnly]

DagTop(dag) == dag[1]

\* The frame reads a transitive property (one of the Evaluating<Property>
\* methods of the checker answers true).
EvaluatingTransitiveProperty(frame) ==
  \/ frame.property \in TransitivePropertyNames
  \/ frame.property \in targetPropertyTransitiveWhitelist
  \/ cmHasLiteralPrefix(frame.property, Str.sCOMPILE_DEFINITIONS_)

EvaluatingLinkLibraries(dag) ==
  DagTop(dag).property \in {Str.sLINK_LIBRARIES, Str.sINTERFACE_ \o Str.sLINK_LIBRARIES}

EvaluatingSources(dag) ==
  dag[Len(dag)].property \in {Str.sSOURCES, Str.sINTERFACE_ \o Str.sSOURCES}

GetTransitivePropertiesOnly(dag) == DagTop(dag).transitivePropertiesOnly

\* The nearest ancestor of the last frame of dag with the same target and
\* property, 0 when there is none.
NearestSame(dag) ==
  LET this == dag[Len(dag)]
      same == {i \in 1..(Len(dag) - 1) :
                 dag[i].target = this.target /\ dag[i].property = this.property}
  IN IF same = {} THEN 0 ELSE CHOOSE i \in same : \A j \in same : j <= i

\* The check with no Seen table kept: a pair is never found seen before.
DagCheckNothingSeen(dag, seen) ==
  LET near == NearestSame(dag)
  IN IF near # 0
     THEN [result |-> IF near = Len(dag) - 1 THEN "SELF_REFERENCE"
                      ELSE "CYCLIC_REFERENCE",
           seen |-> seen]
     ELSE [result |-> "DAG", seen |-> seen]

\* The constructor's check of the frame pushed last: the result, and the
\* Seen table of the top frame afterwards.
DagCheck(dag, seen) ==
  LET this == dag[Len(dag)]
      near == NearestSame(dag)
      pair == <<this.target, this.property>>
  IN IF near # 0
     THEN [result |-> IF near = Len(dag) - 1 THEN "SELF_REFERENCE"
                      ELSE "CYCLIC_REFERENCE",
           seen |-> seen]
     ELSE IF EvaluatingTransitiveProperty(DagTop(dag))
     THEN IF pair \in seen THEN [result |-> "ALREADY_SEEN", seen |-> seen]
          ELSE [result |-> "DAG", seen |-> seen \cup {pair}]
     ELSE [result |-> "DAG", seen |-> seen]

(***************************************************************************)
(* $<TARGET_PROPERTY:...> and the evaluations it starts.                   *)
(***************************************************************************)
RECURSIVE CompiledEvaluate(_, _, _, _, _, _, _, _)
RECURSIVE getLinkedTargetsContent(_, _, _, _, _, _)
RECURSIVE targetPropertyNodeEvaluate(_, _, _)
RECURSIVE TargetPropertyOfFrame(_, _, _, _)
RECURSIVE TargetPropertyContent(_, _, _, _, _)

\* cmCompiledGeneratorExpression::Evaluate: a context of its own, the
\* top-level evaluators one after the other until one fails.  The caller
\* gets the string and reads GetHadContextSensitiveCondition; the caller's
\* own context is not handed in and comes back as it was.  forBuildsystem
\* is the flag of the compiled expression, false unless its owner has set it.
CompiledEvaluate(evaluators, config, quiet, headTarget, currentTarget, dag, st, forBuildsystem) ==
  Bind(EvaluateChildren(
         evaluators, <<>>,
         [st EXCEPT !.ctx = NewContext(config, quiet, headTarget,
                                       currentTarget, forBuildsystem),
                    !.cid = st.nctx + 1,
                    !.nctx = st.nctx + 1],
         dag),
       LAMBDA r :
         [out |-> IF r.st.ctx.HadError THEN Empty ELSE r.out,
          HadContextSensitiveCondition |-> r.st.ctx.HadContextSensitiveCondition,
          context |-> r.st.ctx,
          st |-> [r.st EXCEPT !.ctx = st.ctx, !.cid = st.cid]])

\* The expression "$<TARGET_PROPERTY:t1,prop>;$<TARGET_PROPERTY:t2,prop>..."
\* for the targets other than target, as the parser returns it.
RECURSIVE DepEvaluators(_, _, _, _)
DepEvaluators(targets, target, interfacePropertyName, first) ==
  IF targets = <<>> THEN <<>>
  ELSE IF Head(targets) = target
  THEN DepEvaluators(Tail(targets), target, interfacePropertyName, first)
  ELSE (IF first THEN <<>> ELSE <<Text(sSemi)>>)
       \o <<Op(Str.sTARGET_PROPERTY,
               << <<Text(Head(targets))>>, <<Text(interfacePropertyName)>> >>)>>
       \o DepEvaluators(Tail(targets), target, interfacePropertyName, FALSE)

\* The caller's state after a nested evaluation r: the history entry and the
\* had-context-sensitive-condition flag taken over.
AfterNested(r, note, target, propertyName) ==
  LET st1 == Logged(r.st, LogEntry("sub", note, "targetPropertyNode", target,
                                   <<propertyName>>, r.out, r.st))
  IN IF r.HadContextSensitiveCondition THEN SetContextSensitive(st1) ELSE st1

getLinkedTargetsContent(targets, target, headTarget, st, dag, interfacePropertyName) ==
  Bind(CompiledEvaluate(
         DepEvaluators(targets, target, interfacePropertyName, TRUE),
         st.ctx.Config, st.ctx.Quiet, headTarget, target, dag, st, FALSE),
       LAMBDA r : Ret(r.out, AfterNested(r, "linked", target,
                                         interfacePropertyName)))

\* The comparison that matches the INTERFACE_ forms only.
IsInterfaceOnly(propertyName) ==
  propertyName \in targetPropertyTransitiveWhitelist

\* propertyName is PROPERTY or INTERFACE_PROPERTY for a transitive PROPERTY.
IsTransitiveOrInterface(propertyName) ==
  \/ propertyName \in TransitivePropertyNames
  \/ propertyName \in targetPropertyTransitiveWhitelist

\* POPULATE_INTERFACE_PROPERTY_NAME and the COMPILE_DEFINITIONS_ branch.
InterfacePropertyName(propertyName) ==
  IF propertyName \in TransitivePropertyNames THEN Str.sINTERFACE_ \o propertyName
  ELSE IF propertyName \in targetPropertyTransitiveWhitelist THEN propertyName
  ELSE IF /\ cmHasLiteralPrefix(propertyName, Str.sCOMPILE_DEFINITIONS_)
          /\ Makefile.policies.CMP0043 \in {"WARN", "OLD"}
  THEN Str.sINTERFACE_ \o Str.sCOMPILE_DEFINITIONS
  ELSE Empty

\* Lines 1224-1227 with the separator appended to an empty result too and the
\* linked content appended when it is empty.
AppendLinkedAlwaysSeparated(result, linkedTargetsContent) ==
  result \o sSemi \o linkedTargetsContent

\* Lines 1224-1227: the linked targets' content after the target's own.
AppendLinked(result, linkedTargetsContent) ==
  IF linkedTargetsContent # <<>>
  THEN result \o (IF result = <<>> THEN <<>> ELSE sSemi) \o linkedTargetsContent
  ELSE result

\* The value with every property that is set parsed and evaluated.
TargetPropertyContentAlwaysParsed(target, propertyName, st, dag, linked) ==
  IF ~HasProperty(target, propertyName) THEN Ret(Empty, st)
  ELSE Bind(CompiledEvaluate(ParseProperty(target, propertyName),
                             st.ctx.Config, st.ctx.Quiet, target, target, dag,
                             st, FALSE),
            LAMBDA r : Ret(r.out, AfterNested(r, "own", target, propertyName)))

\* Lines 1132-1231: the value, once the linked targets' content is known.
TargetPropertyContent(target, propertyName, st, dag, linked) ==
  LET dagCheckerParent == SubSeq(dag, 1, Len(dag) - 1)
      interfacePropertyName == InterfacePropertyName(propertyName)
      headTarget == IF st.ctx.HeadTarget # NullTarget THEN st.ctx.HeadTarget
                    ELSE target
      linkedTargetsContent == StripEmptyListElements(linked)
      Consulted(s) == Logged(s, LogEntry("consult", "", "targetPropertyNode",
                                         target, <<propertyName>>, <<>>, s))
      dependentKind(kinds) ==
        IF propertyName \in DOMAIN Target(target).linkInterfaceDependent
           /\ Target(target).linkInterfaceDependent[propertyName].kind \in kinds
        THEN Target(target).linkInterfaceDependent[propertyName].kind
        ELSE "none"
      consultsMinMax ==
        /\ ~Target(target).imported
        /\ dagCheckerParent # NullDag
        /\ ~EvaluatingLinkLibraries(dagCheckerParent)
        /\ dependentKind({"min", "max"}) # "none"
  IN CASE ~HasProperty(target, propertyName)
            -> IF Target(target).imported
                  \/ Target(target).type = "INTERFACE_LIBRARY"
               THEN Ret(linkedTargetsContent, st)
               ELSE IF dependentKind({"bool", "string", "min", "max"}) # "none"
               THEN Ret(GetLinkInterfaceDependent(target, propertyName),
                        SetContextSensitive(Consulted(st)))
               ELSE Ret(linkedTargetsContent, st)
       [] HasProperty(target, propertyName) /\ consultsMinMax
            -> Ret(GetLinkInterfaceDependent(target, propertyName),
                   SetContextSensitive(Consulted(st)))
       [] HasProperty(target, propertyName) /\ ~consultsMinMax
          /\ interfacePropertyName \in targetPropertyTransitiveWhitelist
            -> Bind(CompiledEvaluate(ParseProperty(target, propertyName),
                                     st.ctx.Config, st.ctx.Quiet, headTarget,
                                     target, dag, st, FALSE),
                    LAMBDA r : Ret(AppendLinked(r.out, linkedTargetsContent),
                                   AfterNested(r, "own", target, propertyName)))
       [] OTHER -> Ret(GetProperty(target, propertyName), st)

\* Lines 1028-1130: after the DAG check let the evaluation go on.
TargetPropertyOfFrame(target, propertyName, st, dag) ==
  LET dagCheckerParent == SubSeq(dag, 1, Len(dag) - 1)
      interfacePropertyName == InterfacePropertyName(propertyName)
      headTarget == IF st.ctx.HeadTarget # NullTarget THEN st.ctx.HeadTarget
                    ELSE target
      linkLibraries == dagCheckerParent # NullDag
                       /\ EvaluatingLinkLibraries(dagCheckerParent)
      st0 == IF /\ dagCheckerParent # NullDag
                /\ ~linkLibraries
                /\ ~EvaluatingTransitiveProperty(dagCheckerParent[Len(dagCheckerParent)])
             THEN [st EXCEPT !.failedAssert = TRUE] ELSE st
      linkedTargets ==
        IF propertyName \in targetPropertyTransitiveWhitelist
        THEN Target(target).linkInterface
        ELSE IF interfacePropertyName \in targetPropertyTransitiveWhitelist
        THEN Target(target).linkImplementation
        ELSE <<>>
      readsLinked ==
        IF propertyName \in targetPropertyTransitiveWhitelist
        THEN Target(target).linkInterface # <<>>
        ELSE interfacePropertyName \in targetPropertyTransitiveWhitelist
  IN CASE linkLibraries /\ IsTransitiveOrInterface(propertyName)
            -> Ret(Empty, reportError(st, "$<TARGET_PROPERTY:...> expression in link libraries evaluation depends on target property which is transitive over the link libraries, creating a recursion."))
       [] linkLibraries /\ ~IsTransitiveOrInterface(propertyName)
          /\ ~HasProperty(target, propertyName)
            -> Ret(Empty, st)
       [] OTHER
            -> Bind(IF readsLinked
                    THEN getLinkedTargetsContent(linkedTargets, target, headTarget,
                                                 st0, dag, interfacePropertyName)
                    ELSE Ret(Empty, st0),
                    LAMBDA linked :
                      TargetPropertyContent(target, propertyName, linked.st, dag,
                                            linked.out))

\* The switch with ALREADY_SEEN falling through to DAG for every property.
AfterDagCheckSeenFallsThrough(result, propertyName) ==
  CASE result = "SELF_REFERENCE" -> "error"
    [] result = "CYCLIC_REFERENCE" -> "skip"
    [] OTHER -> "continue"

\* The switch with a cyclic reference reported like a self reference.
AfterDagCheckCycleIsError(result, propertyName) ==
  CASE result \in {"SELF_REFERENCE", "CYCLIC_REFERENCE"} -> "error"
    [] result = "ALREADY_SEEN"
       /\ propertyName \in targetPropertyTransitiveWhitelist -> "skip"
    [] OTHER -> "continue"

\* The switch with ALREADY_SEEN returning the empty string for every property.
AfterDagCheckSeenAlwaysSkips(result, propertyName) ==
  CASE result = "SELF_REFERENCE" -> "error"
    [] result \in {"CYCLIC_REFERENCE", "ALREADY_SEEN"} -> "skip"
    [] OTHER -> "continue"

\* Lines 1005-1026, the switch over dagChecker.Check(): report an error,
\* return the empty string silently, or go on with the evaluation.
AfterDagCheck(result, propertyName) ==
  CASE result = "SELF_REFERENCE" -> "error"
    [] result = "CYCLIC_REFERENCE" -> "skip"
    [] result = "ALREADY_SEEN"
       /\ propertyName \in targetPropertyTransitiveWhitelist -> "skip"
    [] OTHER -> "continue"

\* Lines 959-1026: the property of a target that was found: the record of
\* the properties seen, the validation of the property name, LINKER_LANGUAGE
\* and the DAG check of the new frame.
TargetPropertyOfTarget(target, propertyName, st, dagCheckerParent) ==
  LET st1 == IF target = st.ctx.HeadTarget
             THEN [st EXCEPT !.ctx.SeenTargetProperties = @ \cup {propertyName}]
             ELSE st
      dag == Append(dagCheckerParent, DagFrame(target, propertyName, FALSE))
      check == DagCheck(dag, IF dagCheckerParent = NullDag THEN {} ELSE st1.seen)
      st2 == Logged([st1 EXCEPT !.seen = check.seen],
                    LogEntry("frame", check.result, "targetPropertyNode",
                             target, <<propertyName>>, dag, st1))
      after == AfterDagCheck(check.result, propertyName)
  IN CASE propertyName = <<>>
            -> Ret(Empty, reportError(st1, "$<TARGET_PROPERTY:...> expression requires a non-empty property name."))
       [] propertyName # <<>> /\ ~MatchesWordChars(propertyName)
            -> Ret(Empty, reportError(st1, "Property name not supported."))
       [] propertyName = Str.sLINKER_LANGUAGE
            -> IF /\ Target(target).type = "STATIC_LIBRARY"
                  /\ dagCheckerParent # NullDag
                  /\ (\/ EvaluatingLinkLibraries(dagCheckerParent)
                      \/ EvaluatingSources(dagCheckerParent))
               THEN Ret(Empty, reportError(st1, "LINKER_LANGUAGE target property can not be used while evaluating link libraries for a static library"))
               ELSE Ret(Target(target).linkerLanguage, st1)
       [] OTHER
            -> CASE after = "error"
                      -> Ret(Empty, reportError(st2, "Self reference on target."))
                 [] after = "skip" -> Ret(Empty, st2)
                 [] after = "continue"
                      -> TargetPropertyOfFrame(target, propertyName,
                           Logged(st2, LogEntry("expand", check.result,
                                                "targetPropertyNode", target,
                                                <<propertyName>>, dag, st2)),
                           dag)

\* Lines 948-951: the message that quotes the name.
TargetNotFound(targetName) == <<"Target \"", targetName, "\" not found.">>

\* TargetPropertyNode::Evaluate
targetPropertyNodeEvaluate(parameters, st, dagCheckerParent) ==
  LET error ==
        IF Len(parameters) # 1 /\ Len(parameters) # 2
        THEN "$<TARGET_PROPERTY:...> expression requires one or two parameters"
        ELSE IF st.ctx.HeadTarget = NullTarget /\ Len(parameters) = 1
        THEN "$<TARGET_PROPERTY:prop>  may only be used with binary targets."
        ELSE IF Len(parameters) = 1 THEN ""
        ELSE IF parameters[1] = <<>> /\ parameters[2] = <<>>
        THEN "$<TARGET_PROPERTY:tgt,prop> expression requires a non-empty target name and property name."
        ELSE IF parameters[1] = <<>>
        THEN "$<TARGET_PROPERTY:tgt,prop> expression requires a non-empty target name."
        ELSE IF ~IsValidTargetName(parameters[1])
        THEN IF parameters[2] = <<>> \/ ~MatchesWordChars(parameters[2])
             THEN "Target name and property name not supported."
             ELSE "Target name not supported."
        ELSE IF parameters[2] = Str.sALIASED_TARGET THEN ""
        ELSE IF FindTargetToUse(parameters[1]) = NullTarget
        THEN "Target not found."
        ELSE ""
      aliased == Len(parameters) = 2 /\ parameters[2] = Str.sALIASED_TARGET
  IN CASE error = "Target not found."
            -> Ret(Empty, reportError(st, TargetNotFound(parameters[1])))
       [] error \notin {"", "Target not found."}
            -> Ret(Empty, reportError(st, error))
       [] error = "" /\ aliased
            -> Ret(IF IsAlias(parameters[1])
                      /\ FindTargetToUse(parameters[1]) # NullTarget
                   THEN FindTargetToUse(parameters[1]) ELSE Empty, st)
       [] OTHER
            -> TargetPropertyOfTarget(
                 IF Len(parameters) = 1 THEN st.ctx.HeadTarget
                 ELSE FindTargetToUse(parameters[1]),
                 parameters[Len(parameters)],
                 IF Len(parameters) = 1 THEN st
                 ELSE [st EXCEPT !.ctx.AllTargets =
                                   @ \cup {FindTargetToUse(parameters[1])}],
                 dagCheckerParent)

(***************************************************************************)
(* The remaining operators that return their parameter or a constant.      *)
(***************************************************************************)
\* OneNode (oneNode and buildInterfaceNode) and TargetNameNode
oneNodeEvaluate(parameters, st) == Ret(parameters[1], st)

upperCaseNodeEvaluate(parameters, st) == Ret(UpperCase(parameters[1]), st)

\* LinkOnlyNode::Evaluate.  dagChecker->GetTransitivePropertiesOnly() reads
\* the flag of the top frame; with a null dagChecker the call is undefined.
linkOnlyNodeEvaluate(parameters, st, dagChecker) ==
  LET transitivePropertiesOnly ==
        IF dagChecker # NullDag THEN GetTransitivePropertiesOnly(dagChecker)
        ELSE st.undefined = "true"
  IN IF dagChecker = NullDag /\ st.undefined = "fault"
     THEN Ret(Empty, [st EXCEPT !.fault = TRUE])
     ELSE IF ~transitivePropertiesOnly THEN Ret(parameters[1], st)
     ELSE Ret(Empty, st)

\* PlatformIdNode::Evaluate with the validation of the parameter that the
\* compiler-id nodes have.
platformIdNodeEvaluateValidated(parameters, st) ==
  LET platformId == GetSafeDefinition("CMAKE_SYSTEM_NAME")
  IN IF parameters = <<>> THEN Ret(platformId, st)
     ELSE IF ~MatchesWordChars(parameters[1])
     THEN Ret(Empty, reportError(st, "Expression syntax not recognized."))
     ELSE Ret(IF parameters[1] = platformId THEN s1 ELSE s0, st)

platformIdNodeEvaluate(parameters, st) ==
  LET platformId == GetSafeDefinition("CMAKE_SYSTEM_NAME")
  IN IF parameters = <<>> THEN Ret(platformId, st)
     ELSE Ret(IF parameters[1] = platformId THEN s1 ELSE s0, st)

(***************************************************************************)
(* $<TARGET_OBJECTS:tgt>                                                   *)
(***************************************************************************)
\* Lines 1308-1323: the loop over the computed object file names, in the
\* order of the map; each file becomes an external object source of the
\* directory that belongs to the object library named tgtName.
RECURSIVE ObjectFiles(_, _, _, _, _, _)
ObjectFiles(names, obj_dir, tgtName, result, sep, st) ==
  IF names = <<>> THEN Ret(result, st)
  ELSE ObjectFiles(Tail(names), obj_dir, tgtName,
                   result \o sep \o obj_dir \o Head(names), sSemi,
                   [st EXCEPT !.sources = @ \cup {[file |-> obj_dir \o Head(names),
                                                   objectLibrary |-> tgtName]},
                              !.failedAssert = @ \/ Head(names) = <<>>])

\* TargetObjectsNode::Evaluate without the test of the flag.
targetObjectsNodeEvaluateAnywhere(parameters, st) ==
  LET tgtName == parameters[1]
      gt == FindTargetToUse(tgtName)
  IN IF gt = NullTarget
     THEN Ret(Empty, reportError(st, <<"Objects of target \"", tgtName, "\" referenced but no such target exists.">>))
     ELSE IF Target(gt).type # "OBJECT_LIBRARY"
     THEN Ret(Empty, reportError(st, <<"Objects of target \"", tgtName, "\" referenced but is not an OBJECT library.">>))
     ELSE ObjectFiles(Target(gt).objectNames, Target(gt).objectDirectory,
                      tgtName, Empty, Empty, st)

\* TargetObjectsNode::Evaluate.  The object file names that
\* ComputeObjectFilenames gives the object sources are in the target's record.
targetObjectsNodeEvaluate(parameters, st) ==
  LET tgtName == parameters[1]
      gt == FindTargetToUse(tgtName)
  IN IF ~st.ctx.EvaluateForBuildsystem
     THEN Ret(Empty, reportError(st, "The evaluation of the TARGET_OBJECTS generator expression is only suitable for consumption by CMake.  It is not suitable for writing out elsewhere."))
     ELSE IF gt = NullTarget
     THEN Ret(Empty, reportError(st, <<"Objects of target \"", tgtName, "\" referenced but no such target exists.">>))
     ELSE IF Target(gt).type # "OBJECT_LIBRARY"
     THEN Ret(Empty, reportError(st, <<"Objects of target \"", tgtName, "\" referenced but is not an OBJECT library.">>))
     ELSE ObjectFiles(Target(gt).objectNames, Target(gt).objectDirectory,
                      tgtName, Empty, Empty, st)

(***************************************************************************)
(* $<TARGET_FILE:tgt> and the other target-file artifacts.                 *)
(***************************************************************************)
\* cmSystemTools::GetFilenameName and GetFilenamePath: what follows and what
\* precedes the last slash.
LastSlash(str) ==
  LET slashes == {i \in DOMAIN str : str[i] = "/"}
  IN IF slashes = {} THEN 0 ELSE CHOOSE i \in slashes : \A j \in slashes : j <= i

GetFilenameName(str) == SubSeq(str, LastSlash(str) + 1, Len(str))

GetFilenamePath(str) == SubSeq(str, 1, LastSlash(str) - 1)

\* cmTarget::GetFullPath(config, implib, realname): the files of a target
\* are in its record.
GetFullPath(target, implib) ==
  Target(target).directory \o <<"/">>
  \o (IF implib THEN Target(target).importLibrary ELSE Target(target).file)

\* cmGeneratorExpressionDAGChecker::EvaluatingLinkLibraries(tgt): the top
\* frame is the evaluation of LINK_LIBRARIES of the target named tgt.
EvaluatingLinkLibrariesOf(dag, tgt) ==
  DagTop(dag).target = tgt /\ DagTop(dag).property = Str.sLINK_LIBRARIES

\* TargetFilesystemArtifactResultCreator<linker, soname>::Create.  A target
\* has an import library (HasImportLibrary) where the platform uses DLLs.
TargetFilesystemArtifactResultCreate(linker, soname, target, st) ==
  CASE soname /\ Target(target).dllPlatform
         -> Ret(Empty, reportError(st, "TARGET_SONAME_FILE is not allowed for DLL target platforms."))
    [] soname /\ ~Target(target).dllPlatform
       /\ Target(target).type # "SHARED_LIBRARY"
         -> Ret(Empty, reportError(st, "TARGET_SONAME_FILE is allowed only for SHARED libraries."))
    [] soname /\ ~Target(target).dllPlatform
       /\ Target(target).type = "SHARED_LIBRARY"
         -> Ret(Target(target).directory \o <<"/">> \o Target(target).soName, st)
    [] linker /\ ~Target(target).linkable
         -> Ret(Empty, reportError(st, "TARGET_LINKER_FILE is allowed only for libraries and executables with ENABLE_EXPORTS."))
    [] linker /\ Target(target).linkable
         -> Ret(GetFullPath(target, Target(target).dllPlatform), st)
    [] OTHER -> Ret(GetFullPath(target, FALSE), st)

\* TargetFilesystemArtifactResultGetter<dirQual, nameQual>::Get
TargetFilesystemArtifactResultGet(dirQual, nameQual, result) ==
  IF nameQual THEN GetFilenameName(result)
  ELSE IF dirQual THEN GetFilenamePath(result)
  ELSE result

\* TargetFilesystemArtifact<linker, soname, dirQual, nameQual>::Evaluate
TargetFilesystemArtifactEvaluate(node, parameters, st, dagChecker) ==
  LET linker == node \in {"targetLinkerFileNode", "targetLinkerFileNameNode",
                          "targetLinkerFileDirNode"}
      soname == node \in {"targetSoNameFileNode", "targetSoNameFileNameNode",
                          "targetSoNameFileDirNode"}
      dirQual == node \in {"targetFileDirNode", "targetLinkerFileDirNode",
                           "targetSoNameFileDirNode"}
      nameQual == node \in {"targetFileNameNode", "targetLinkerFileNameNode",
                            "targetSoNameFileNameNode"}
      name == parameters[1]
      target == FindTargetToUse(name)
      st1 == [st EXCEPT !.ctx.DependTargets = @ \cup {target},
                        !.ctx.AllTargets = @ \cup {target}]
      created == TargetFilesystemArtifactResultCreate(linker, soname, target, st1)
  IN IF ~IsValidTargetName(name)
     THEN Ret(Empty, reportError(st, "Expression syntax not recognized."))
     ELSE IF target = NullTarget
     THEN Ret(Empty, reportError(st, <<"No target \"", name, "\"">>))
     ELSE IF Target(target).type \in {"OBJECT_LIBRARY", "UTILITY", "GLOBAL_TARGET",
                                      "INTERFACE_LIBRARY"}
     THEN Ret(Empty, reportError(st, <<"Target \"", name, "\" is not an executable or library.">>))
     ELSE IF /\ dagChecker # NullDag
             /\ \/ EvaluatingLinkLibrariesOf(dagChecker, name)
                \/ EvaluatingSources(dagChecker) /\ name = DagTop(dagChecker).target
     THEN Ret(Empty, reportError(st, "Expressions which require the linker language may not be used while evaluating link libraries"))
     ELSE IF created.st.ctx.HadError THEN Ret(Empty, created.st)
     ELSE Ret(TargetFilesystemArtifactResultGet(dirQual, nameQual, created.out),
              created.st)

\* CompileFeaturesNode::Evaluate.  Makefile.features says what the build
\* context answers: known, the language of each known feature
\* (CompileFeatureKnown); available, the languages whose features the
\* compiler records (CompileFeaturesAvailable); have, the features the head
\* target has (HaveFeatureAvailable); standard, the <LANG>_STANDARD that
\* applies.  The function-static cache availableFeatures only saves calls of
\* CompileFeaturesAvailable, whose answer does not change in a directory.
compileFeaturesNodeEvaluate(parameters, st, dagChecker) ==
  LET target == st.ctx.HeadTarget
      features == Makefile.features
      failing == {i \in DOMAIN parameters :
                    \/ parameters[i] \notin DOMAIN features.known
                    \/ features.known[parameters[i]] \notin features.available}
      evalLL == dagChecker # NullDag /\ EvaluatingLinkLibraries(dagChecker)
      missing == {i \in DOMAIN parameters : parameters[i] \notin features.have}
  IN IF target = NullTarget
     THEN Ret(Empty, reportError(st, "$<COMPILE_FEATURE> may only be used with binary targets."))
     ELSE IF failing # {}
     THEN Ret(Empty, reportError(st, "compile feature not known or not recorded for the compiler"))
     ELSE IF missing = {} THEN Ret(s1, st)
     ELSE IF evalLL
     THEN Ret(s1, [st EXCEPT !.ctx.MaxLanguageStandard =
                     @ \cup {<<target, features.known[parameters[i]],
                               features.standard[features.known[parameters[i]]]>> :
                               i \in missing}])
     ELSE Ret(s0, st)

\* The virtual call node->Evaluate(parameters, context, content, dagChecker).
NodeEvaluate(node, parameters, st, dagChecker) ==
  LET st1 == Logged(st, LogEntry("invoke", "", node, <<>>, parameters, <<>>, st))
  IN CASE node \in {"oneNode", "buildInterfaceNode", "targetNameNode"}
            -> oneNodeEvaluate(parameters, st1)
       [] node = "andNode" -> andNodeEvaluate(parameters, st1)
       [] node = "orNode" -> orNodeEvaluate(parameters, st1)
       [] node = "notNode" -> notNodeEvaluate(parameters, st1)
       [] node = "strEqualNode" -> strEqualNodeEvaluate(parameters, st1)
       [] node = "equalNode" -> equalNodeEvaluate(parameters, st1)
       [] node = "versionGreaterNode"
            -> versionNodeEvaluate("OP_GREATER", parameters, st1)
       [] node = "versionLessNode"
            -> versionNodeEvaluate("OP_LESS", parameters, st1)
       [] node = "versionEqualNode"
            -> versionNodeEvaluate("OP_EQUAL", parameters, st1)
       [] node = "upperCaseNode" -> upperCaseNodeEvaluate(parameters, st1)
       [] node \in TargetFilesystemArtifactNodes
            -> TargetFilesystemArtifactEvaluate(node, parameters, st1, dagChecker)
       [] node = "targetObjectsNode" -> targetObjectsNodeEvaluate(parameters, st1)
       [] node = "linkOnlyNode"
            -> linkOnlyNodeEvaluate(parameters, st1, dagChecker)
       [] node = "angle_rNode" -> Ret(sAngleR, st1)
       [] node = "commaNode" -> Ret(sComma, st1)
       [] node = "semicolonNode" -> Ret(sSemi, st1)
       [] node = "cCompilerIdNode" -> cCompilerIdNodeEvaluate(parameters, st1)
       [] node = "cxxCompilerIdNode" -> cxxCompilerIdNodeEvaluate(parameters, st1)
       [] node = "cCompilerVersionNode"
            -> cCompilerVersionNodeEvaluate(parameters, st1)
       [] node = "cxxCompilerVersionNode"
            -> cxxCompilerVersionNodeEvaluate(parameters, st1)
       [] node = "compileFeaturesNode"
            -> compileFeaturesNodeEvaluate(parameters, st1, dagChecker)
       [] node = "platformIdNode" -> platformIdNodeEvaluate(parameters, st1)
       [] node = "configurationNode" -> configurationNodeEvaluate(parameters, st1)
       [] node = "configurationTestNode"
            -> configurationTestNodeEvaluate(parameters, st1)
       [] node = "joinNode" -> joinNodeEvaluate(parameters, st1)
       [] node = "targetPolicyNode" -> targetPolicyNodeEvaluate(parameters, st1)
       [] node = "installPrefixNode" -> installPrefixNodeEvaluate(parameters, st1)
       [] node = "targetPropertyNode"
            -> targetPropertyNodeEvaluate(parameters, st1, dagChecker)

(***************************************************************************)
(* The evaluation driver (GeneratorExpressionContent).                     *)
(***************************************************************************)
\* cmGeneratorExpressionEvaluator::Evaluate: TextContent or
\* GeneratorExpressionContent.
Evaluate(e, st, dagChecker) ==
  IF e.type = "Text" THEN Ret(e.text, st)
  ELSE EvaluateContent(e, st, dagChecker)

\* The loop without its test of HadError: every child is evaluated.
EvaluateChildrenToTheEnd(children, result, st, dagChecker) ==
  IF children = <<>>
  THEN [out |-> IF st.ctx.HadError THEN Empty ELSE result, st |-> st,
        aborted |-> st.ctx.HadError]
  ELSE Bind(Evaluate(Head(children), st, dagChecker),
            LAMBDA r : EvaluateChildren(Tail(children), result \o r.out, r.st,
                                        dagChecker))

\* The loop "result += (*it)->Evaluate(...); if (context->HadError) return"
\* over a list of children; aborted tells that the loop returned.
EvaluateChildren(children, result, st, dagChecker) ==
  IF children = <<>> THEN [out |-> result, st |-> st, aborted |-> FALSE]
  ELSE Bind(Evaluate(Head(children), st, dagChecker),
            LAMBDA r :
              IF r.st.ctx.HadError
              THEN [out |-> Empty, st |-> r.st, aborted |-> TRUE]
              ELSE EvaluateChildren(Tail(children), result \o r.out, r.st,
                                    dagChecker))

\* The inner loop of ProcessArbitraryContent over the children of one
\* parameter.
ArbitraryContentChildren(node, identifier, st, dagChecker, children, result) ==
  IF children = <<>> THEN [out |-> result, st |-> st, aborted |-> FALSE]
  ELSE IF RequiresLiteralInput(node) /\ Head(children).type # "Text"
  THEN [out |-> Empty,
        st |-> reportError(st, "expression requires literal input."),
        aborted |-> TRUE]
  ELSE Bind(Evaluate(Head(children), st, dagChecker),
            LAMBDA r :
              IF r.st.ctx.HadError
              THEN [out |-> Empty, st |-> r.st, aborted |-> TRUE]
              ELSE ArbitraryContentChildren(node, identifier, r.st, dagChecker,
                                            Tail(children), result \o r.out))

\* The outer loop of ProcessArbitraryContent with the comma appended after
\* every parameter, the last one included.
ArbitraryContentGroupsTrailingComma(node, identifier, st, dagChecker, ParamChildren, pit, result) ==
  IF pit > Len(ParamChildren) THEN [out |-> result, st |-> st, aborted |-> FALSE]
  ELSE Bind(ArbitraryContentChildren(node, identifier, st, dagChecker,
                                     ParamChildren[pit], result),
            LAMBDA r :
              IF r.aborted THEN r
              ELSE ArbitraryContentGroups(node, identifier, r.st, dagChecker,
                                          ParamChildren, pit + 1,
                                          r.out \o sComma))

\* The outer loop of ProcessArbitraryContent, from parameter pit on.
ArbitraryContentGroups(node, identifier, st, dagChecker, ParamChildren, pit, result) ==
  IF pit > Len(ParamChildren) THEN [out |-> result, st |-> st, aborted |-> FALSE]
  ELSE Bind(ArbitraryContentChildren(node, identifier, st, dagChecker,
                                     ParamChildren[pit], result),
            LAMBDA r :
              IF r.aborted THEN r
              ELSE ArbitraryContentGroups(
                     node, identifier, r.st, dagChecker, ParamChildren, pit + 1,
                     IF pit + 1 <= Len(ParamChildren) THEN r.out \o sComma
                     ELSE r.out))

ProcessArbitraryContent(node, identifier, st, dagChecker, ParamChildren, pit) ==
  Bind(ArbitraryContentGroups(node, identifier, st, dagChecker,
                              ParamChildren, pit, Empty),
       LAMBDA r :
         IF r.aborted THEN Ret(Empty, r.st)
         ELSE IF RequiresLiteralInput(node)
         THEN NodeEvaluate(node, <<r.out>>, r.st, dagChecker)
         ELSE Ret(r.out, r.st))

\* The loop of EvaluateParameters over the parameters, from parameter
\* counter on; returned tells that the function returned from inside the loop.
EvaluateParameterGroups(node, identifier, st, dagChecker, ParamChildren, counter, parameters) ==
  IF counter > Len(ParamChildren)
  THEN [parameters |-> parameters, st |-> st, returned |-> FALSE]
  ELSE IF AcceptsArbitraryContentParameter(node)
          /\ counter = NumExpectedParameters(node)
  THEN Bind(ProcessArbitraryContent(node, identifier, st, dagChecker,
                                    ParamChildren, counter),
            LAMBDA r :
              [parameters |-> Append(parameters, r.out), st |-> r.st,
               returned |-> TRUE])
  ELSE Bind(EvaluateChildren(ParamChildren[counter], Empty, st, dagChecker),
            LAMBDA r :
              IF r.aborted
              THEN [parameters |-> parameters, st |-> r.st, returned |-> TRUE]
              ELSE EvaluateParameterGroups(node, identifier, r.st, dagChecker,
                                           ParamChildren, counter + 1,
                                           Append(parameters, r.out)))

\* GeneratorExpressionContent::EvaluateParameters: the parameters it fills,
\* and the state it leaves.
EvaluateParameters(node, identifier, st, dagChecker, ParamChildren) ==
  LET numExpected == NumExpectedParameters(node)
      OneOrZero(parameters, st1) ==
        [parameters |-> parameters,
         st |-> IF numExpected = OneOrZeroParameters /\ Len(parameters) > 1
                THEN reportError(st1, "expression requires one or zero parameters.")
                ELSE st1]
      Counted(r) ==
        IF r.returned THEN [parameters |-> r.parameters, st |-> r.st]
        ELSE IF numExpected > DynamicParameters /\ numExpected # Len(r.parameters)
        THEN [parameters |-> r.parameters,
              st |-> reportError(r.st,
                       IF numExpected = 0 THEN "expression requires no parameters."
                       ELSE IF numExpected = 1
                       THEN "expression requires exactly one parameter."
                       ELSE "expression requires comma separated parameters.")]
        ELSE OneOrZero(r.parameters,
                       IF numExpected = OneOrMoreParameters /\ Len(r.parameters) = 0
                       THEN reportError(r.st, "expression requires at least one parameter.")
                       ELSE r.st)
  IN Bind(EvaluateParameterGroups(node, identifier, st, dagChecker,
                                  ParamChildren, 1, <<>>),
          Counted)

\* GeneratorExpressionContent::Evaluate
ContentEvaluate(e, st, dagChecker) ==
  Bind(EvaluateChildren(e.ident, Empty, st, dagChecker), LAMBDA id :
    LET node == IF id.out \in id.st.registry THEN GetNode(id.out)
                                               ELSE NullNode
        noContent == /\ ~GeneratesContent(node)
                     /\ NumExpectedParameters(node) = 1
                     /\ AcceptsArbitraryContentParameter(node)
    IN CASE id.aborted -> Ret(Empty, id.st)
         [] ~id.aborted /\ node = NullNode
              -> Ret(Empty, reportError(id.st, "Expression did not evaluate to a known generator expression"))
         [] ~id.aborted /\ node # NullNode /\ noContent
              -> IF e.params = <<>>
                 THEN Ret(Empty, reportError(id.st, "expression requires a parameter."))
                 ELSE Ret(Empty, id.st)
         [] OTHER
              -> Bind(EvaluateParameters(node, id.out, id.st, dagChecker,
                                         e.params),
                      LAMBDA ps :
                        IF ~GeneratesContent(node) \/ ps.st.ctx.HadError
                        THEN Ret(Empty, ps.st)
                        ELSE NodeEvaluate(node, ps.parameters, ps.st,
                                          dagChecker)))

\* The same with the history kept: the node entered, the node returned.
EvaluateContent(e, st, dagChecker) ==
  Bind(ContentEvaluate(
         e, Logged(st, LogEntry("enter", "", NullNode, e.ident, e.params,
                                <<>>, st)),
         dagChecker),
       LAMBDA r :
         Ret(r.out, Logged(r.st, LogEntry("return", "", NullNode, e.ident,
                                          e.params, r.out, r.st))))

(***************************************************************************)
(* The program: a caller evaluates one compiled expression after the       *)
(* other in one process.                                                   *)
(***************************************************************************)
\* The state threaded through an evaluation before its first context exists.
Boot(e, undefined) ==
  [ctx |-> NewContext(Empty, FALSE, NullTarget, NullTarget, FALSE),
   errno |-> e, msgs |-> <<>>, seen |-> {}, log |-> <<>>,
   cid |-> 0, nctx |-> 0, failedAssert |-> FALSE,
   undefined |-> undefined, fault |-> FALSE, sources |-> {},
   registry |-> DOMAIN nodeMap]

\* The behaviour of the code is undefined where it reads a member through a
\* null cmGeneratorExpressionDAGChecker pointer: the process faults, or the
\* read yields false or true.
NullCheckerReads == {"fault", "false", "true"}

\* A request of the caller: the parsed expression and the arguments of
\* cmCompiledGeneratorExpression::Evaluate.
Job(evaluators, config, quiet, headTarget, currentTarget, dag) ==
  [expr |-> evaluators, config |-> config, quiet |-> quiet,
   headTarget |-> headTarget, currentTarget |-> currentTarget, dag |-> dag,
   forBuildsystem |-> FALSE]

\* The evaluation of a request in a process whose errno is e.
TopEvaluate(job, e, undefined) ==
  CompiledEvaluate(job.expr, job.config, job.quiet, job.headTarget,
                   job.currentTarget, job.dag, Boot(e, undefined),
                   job.forBuildsystem)

\* The caller evaluates an expression: one call of
\* cmCompiledGeneratorExpression::Evaluate, from entry to return, or to the
\* fault of the process, after which the caller has no result and no context
\* to read.
EvaluateTop(job) ==
  /\ pc = "idle"
  /\ \E undefined \in NullCheckerReads :
       Bind(TopEvaluate(job, errno, undefined),
            LAMBDA r : /\ pc' = IF r.st.fault THEN "crashed" ELSE "done"
                       /\ Output' = IF r.st.fault THEN Empty ELSE r.out
                       /\ context' = IF r.st.fault THEN context ELSE r.context
                       /\ errno' = r.st.errno
                       /\ messages' = r.st.msgs
                       /\ log' = r.st.log
                       /\ Makefile' = [Makefile EXCEPT
                                         !.sources = @ \cup r.st.sources]
                       /\ registry' =
                            IF \E i \in DOMAIN r.st.log :
                                 r.st.log[i].ev = "enter"
                            THEN DOMAIN nodeMap ELSE registry)
  /\ expr' = job.expr
  /\ parentDag' = job.dag
  /\ UNCHANGED threads

\* The caller drops the compiled expression and its result; the process
\* (and its errno) lives on.
Release ==
  /\ pc = "done"
  /\ pc' = "idle"
  /\ expr' = <<>>
  /\ parentDag' = NullDag
  /\ context' = NewContext(Empty, FALSE, NullTarget, NullTarget, FALSE)
  /\ Output' = Empty
  /\ messages' = <<>>
  /\ log' = <<>>
  /\ UNCHANGED <<Makefile, errno, registry, threads>>

\* The threads of the process other than the caller's.
Threads == {"t1", "t2"}

\* A thread that evaluates nothing.
IdleThread ==
  [pc |-> "idle", job |-> <<>>, next |-> 0, out |-> Empty, hadError |-> FALSE]

\* The state of a process that has evaluated nothing yet.
Idle(worlds) ==
  /\ Makefile \in worlds
  /\ errno = 0
  /\ pc = "idle"
  /\ expr = <<>>
  /\ parentDag = NullDag
  /\ context = NewContext(Empty, FALSE, NullTarget, NullTarget, FALSE)
  /\ Output = Empty
  /\ messages = <<>>
  /\ log = <<>>
  /\ registry = {}
  /\ threads = [t \in Threads |-> IdleThread]

(***************************************************************************)
(* The build contexts and the expressions of the general specification.    *)
(***************************************************************************)

\* A target as add_library leaves it: nothing set, nothing linked.
PlainTarget(type) ==
  [type |-> type, imported |-> FALSE, properties |-> <<>>,
   linkInterface |-> <<>>, linkImplementation |-> <<>>,
   linkInterfaceDependent |-> <<>>,
   policies |-> (Str.sCMP0003 :> "NEW") @@ (Str.sCMP0020 :> "OLD") @@ (Str.sCMP0022 :> "WARN"),
   mappedConfig |-> FALSE, linkerLanguage |-> Str.sC,
   dllPlatform |-> FALSE,
   linkable |-> type \in {"STATIC_LIBRARY", "SHARED_LIBRARY", "MODULE_LIBRARY",
                          "UNKNOWN_LIBRARY", "INTERFACE_LIBRARY"},
   directory |-> <<"/", "d">>, file |-> <<"f">>, soName |-> <<"f", ".", "1">>,
   importLibrary |-> <<"f", ".", "l">>,
   objectDirectory |-> <<"/", "o", "/">>, objectNames |-> <<>>]

\* A directory with compiler and platform known and no targets.
PlainMakefile ==
  [targets |-> <<>>, aliases |-> <<>>, sources |-> {},
   definitions |-> ("CMAKE_C_COMPILER_ID" :> Str.sGNU)
                   @@ ("CMAKE_CXX_COMPILER_ID" :> Str.sGNU)
                   @@ ("CMAKE_SYSTEM_NAME" :> Str.sLinux),
   policies |-> [CMP0044 |-> "NEW", CMP0043 |-> "NEW"],
   features |-> [known |-> (Str.sc_restrict :> Str.sC)
                           @@ (Str.scxx_auto_type :> Str.sCXX)
                           @@ (Str.scxx_constexpr :> Str.sCXX),
                 available |-> {Str.sC, Str.sCXX},
                 have |-> {Str.sc_restrict, Str.scxx_auto_type},
                 standard |-> (Str.sC :> Str.s11) @@ (Str.sCXX :> Str.s11)]]

\* One static library "a": INCLUDE_DIRECTORIES is "x", COMPILE_OPTIONS is
\* "$<CONFIG:x>", COMPILE_DEFINITIONS is "$<CONFIG:x>$<NOT:x>", and the
\* property x depends on the link interface.
Worlds ==
  {[PlainMakefile EXCEPT
      !.targets =
        (<<"a">> :>
           [PlainTarget("STATIC_LIBRARY") EXCEPT
              !.properties =
                 (Str.sINCLUDE_DIRECTORIES :> <<Text(Str.sx)>>)
                 @@ (Str.sCOMPILE_OPTIONS :> <<Op(Str.sCONFIG, << <<Text(Str.sx)>> >>)>>)
                 @@ (Str.sCOMPILE_DEFINITIONS :>
                       <<Op(Str.sCONFIG, << <<Text(Str.sx)>> >>),
                         Op(Str.sNOT, << <<Text(Str.sx)>> >>)>>),
              !.linkInterfaceDependent =
                 (Str.sx :> [kind |-> "string", value |-> s1])])]}

\* The literal parameters: "0", "1", a word and a non-word.
Leaves == {Text(s0), Text(s1), Text(Str.sx), Text(Str.sDash)}

\* The parameter lists of at most n parameters, one literal each.
LeafParams(n) == UNION {[1..k -> {<<l>> : l \in Leaves}] : k \in 0..n}

\* The identifiers the expressions are made of; FOO is not registered.
Identifiers ==
  {s0, s1, Str.sAND, Str.sOR, Str.sNOT, Str.sSTREQUAL, Str.sEQUAL, Str.sUPPER_CASE, Str.sANGLE_R, Str.sCOMMA,
   Str.sSEMICOLON, Str.sCONFIGURATION, Str.sCONFIG, Str.sINSTALL_PREFIX, Str.sJOIN, Str.sTARGET_NAME,
   Str.sBUILD_INTERFACE, Str.sINSTALL_INTERFACE, Str.sC_COMPILER_ID, Str.sCXX_COMPILER_ID,
   Str.sPLATFORM_ID, Str.sTARGET_POLICY, Str.sTARGET_PROPERTY, Str.sFOO}

\* $<ID>, $<ID:p1>, ... $<ID:p1,...,pn> with literal parameters.
Flat(n) == {Op(id, ps) : id \in Identifiers, ps \in LeafParams(n)}

\* The identifiers that wrap another expression.
WrapIdentifiers == {s1, s0, Str.sAND, Str.sTARGET_NAME}

Wrap(S) == {Op(id, << <<e>> >>) : id \in WrapIdentifiers, e \in S}

RECURSIVE Nested(_)
Nested(depth) == IF depth = 0 THEN Flat(1) ELSE Wrap(Nested(depth - 1))

\* Largest nesting depth of the generated expressions.
MaxDepth == 2

\* Two expressions side by side, and text around an expression.
SiblingIdentifiers == {Str.sNOT, Str.sCONFIG, s1, Str.sCOMMA}

Siblings ==
  LET S == {Op(id, ps) : id \in SiblingIdentifiers,
                         ps \in {<<>>, << <<Text(s0)>> >>, << <<Text(Str.sx)>> >>}}
  IN {<<e, f>> : e \in S, f \in S} \cup {<<Text(Str.sx), e, Text(Str.sx)>> : e \in S}

\* $<TARGET_POLICY:...> of a policy that is and is not on the whitelist, an
\* identifier that is itself an expression, properties of a, the property
\* of a whose value is erroneous read twice, and nodes of two children, in two
\* parameters, in one parameter and as identifier and parameter: $<NOT:x>
\* fails, $<CONFIG:x> sets the context-sensitive flag, $<1:x> does neither;
\* a property of a read inside $<0:...>, $<INSTALL_INTERFACE:...> and $<1:...>.
Special ==
  {<<Op(Str.sTARGET_POLICY, << <<Text(p)>> >>)>> : p \in {Str.sCMP0003, Str.sCMP0020, Str.sCMP0022}}
  \cup {<<Content(<<Op(s1, << <<Text(id)>> >>)>>, << <<Text(s1)>>, <<Text(Str.sx)>> >>)>> :
          id \in {Str.sAND, Str.sNOT, Str.sFOO}}
  \cup {<<Content(<<Op(Str.sNOT, << <<Text(Str.sx)>> >>)>>, << <<Text(s1)>> >>)>>}
  \cup {<<Op(Str.sTARGET_PROPERTY, << <<Text(<<"a">>)>>, <<Text(prop)>> >>)>> :
          prop \in {Str.sINCLUDE_DIRECTORIES, Str.sCOMPILE_OPTIONS, Str.sCOMPILE_DEFINITIONS}}
  \cup {<<Op(Str.sTARGET_PROPERTY,
             << <<Text(<<"a">>)>>, <<Text(Str.sCOMPILE_DEFINITIONS)>> >>),
          Op(Str.sTARGET_PROPERTY,
             << <<Text(<<"a">>)>>, <<Text(Str.sCOMPILE_DEFINITIONS)>> >>)>>}
  \cup UNION {{<<Op(id, << <<Op(c, << <<Text(Str.sx)>> >>)>>,
                           <<Op(d, << <<Text(Str.sx)>> >>)>> >>)>>,
                <<Op(id, << <<Op(c, << <<Text(Str.sx)>> >>),
                             Op(d, << <<Text(Str.sx)>> >>)>> >>)>>,
                <<Content(<<Op(c, << <<Text(Str.sx)>> >>)>>,
                          << <<Op(d, << <<Text(Str.sx)>> >>)>> >>)>>} :
                 id \in {Str.sAND, Str.sJOIN, Str.sSTREQUAL, s1, s0,
                         Str.sINSTALL_INTERFACE},
                 c \in {Str.sNOT, Str.sCONFIG, s1},
                 d \in {Str.sNOT, Str.sCONFIG, s1}}
  \cup {<<Op(id, << <<Op(Str.sTARGET_PROPERTY,
                         << <<Text(<<"a">>)>>,
                            <<Text(Str.sINCLUDE_DIRECTORIES)>> >>)>> >>)>> :
          id \in {s0, Str.sINSTALL_INTERFACE, s1}}

Expressions ==
  {<<e>> : e \in Flat(MaxParams)}
  \cup {<<e>> : e \in UNION {Nested(d) : d \in 1..MaxDepth}}
  \cup Siblings \cup Special

Jobs ==
  {Job(e, Str.sDebug, FALSE, head, head, NullDag) :
     e \in Expressions, head \in {NullTarget, <<"a">>}}
  \cup {Job(e, Str.sDebug, TRUE, head, head, NullDag) :
          e \in Special, head \in {NullTarget, <<"a">>}}

Init == Idle(Worlds)

Next ==
  \/ \E job \in Jobs : EvaluateTop(job)
  \/ Release

Spec == Init /\ [][Next]_vars

(***************************************************************************)
(* The specification of $<EQUAL:a,b>: every short string over the          *)
(* characters that matter to the parser, and some longer numbers.          *)
(***************************************************************************)
EqualAlphabet == {"0", "1", "b", "-", "+", "x", " "}

\* Longest generated parameter of $<EQUAL>.
MaxEqualLen == 4

EqualStrings == UNION {[1..n -> EqualAlphabet] : n \in 0..MaxEqualLen}

\* LONG_MAX, LONG_MAX + 1, LONG_MIN, LONG_MIN - 1 and the numbers of the
\* documentation's examples.
EqualSamples ==
  {<<"2","1","4","7","4","8","3","6","4","7">>,
   <<"2","1","4","7","4","8","3","6","4","8">>,
   <<"-","2","1","4","7","4","8","3","6","4","8">>,
   <<"-","2","1","4","7","4","8","3","6","4","9">>,
   <<"0","x","7","f","f","f","f","f","f","f">>,
   <<"0","x","8","0","0","0","0","0","0","0">>,
   <<"1","6">>, <<"-","3">>, <<"-","0","b","1","1">>, <<"a","b","c">>,
   <<"0","b","-","0","b","1">>, <<"0","B","+","0","B","1">>, <<"0","1","7">>}

EqualRightHandSides == {s1, <<"-","1">>, <<"1","6">>, <<"-","3">>}

EqualJobs ==
  {Job(<<Op(Str.sEQUAL, << <<Text(a)>>, <<Text(b)>> >>)>>,
       Empty, FALSE, NullTarget, NullTarget, NullDag) :
     a \in EqualStrings \cup EqualSamples, b \in EqualRightHandSides}

InitEqual == Idle({PlainMakefile})

NextEqual ==
  \/ \E job \in EqualJobs : EvaluateTop(job)
  \/ Release

SpecEqual == InitEqual /\ [][NextEqual]_vars

(***************************************************************************)
(* The specification of $<TARGET_PROPERTY:...> over link graphs: three     *)
(* static libraries a, b and c whose link interfaces and                   *)
(* INTERFACE_INCLUDE_DIRECTORIES may refer to each other and to            *)
(* themselves.                                                             *)
(***************************************************************************)
TargetNames == << <<"a">>, <<"b">>, <<"c">> >>

Names == {TargetNames[i] : i \in DOMAIN TargetNames}

\* Largest number of entries of a link interface.
MaxLinks == 2

\* The members of a set of targets, in the order a, b, c.
InOrder(S) == SelectSeq(TargetNames, LAMBDA t : t \in S)

LinkLists(S) == {InOrder(L) : L \in {L \in SUBSET S : Cardinality(L) <= MaxLinks}}


\* The directory of a target: /A, /B, /C.
Directory(t) == <<"/">> \o UpperCase(t)

\* "$<TARGET_PROPERTY:t,INTERFACE_INCLUDE_DIRECTORIES>"
InterfaceRead(t) == Op(Str.sTARGET_PROPERTY, << <<Text(t)>>, <<Text(Str.sIID)>> >>)

\* The values INTERFACE_INCLUDE_DIRECTORIES of target t may have: not set
\* (the empty choice), its directory, or its directory and then the interface
\* directories of one of the targets refs.
OwnValues(t, refs) ==
  {<<>>, <<Text(Directory(t))>>}
  \cup {<<Text(Directory(t) \o sSemi), InterfaceRead(r)>> : r \in refs}

Library(own, links) ==
  [PlainTarget("STATIC_LIBRARY") EXCEPT
     !.properties = IF own = <<>> THEN <<>> ELSE (Str.sIID :> own),
     !.linkInterface = links,
     !.linkImplementation = links]

\* "$<TARGET_PROPERTY:b,INCLUDE_DIRECTORIES>" twice, then
\* "$<TARGET_PROPERTY:a,INTERFACE_INCLUDE_DIRECTORIES>": what the value of
\* INTERFACE_INCLUDE_DIRECTORIES of a may hold.
RepeatedReads ==
  <<Op(Str.sTARGET_PROPERTY,
       << <<Text(<<"b">>)>>, <<Text(Str.sINCLUDE_DIRECTORIES)>> >>),
    Op(Str.sTARGET_PROPERTY,
       << <<Text(<<"b">>)>>, <<Text(Str.sINCLUDE_DIRECTORIES)>> >>),
    InterfaceRead(<<"a">>)>>

\* a links anything, itself included, and refers to itself or to b; b links
\* and refers to a and c; c, a library at the end of the chain, has its
\* directory or nothing and links nothing or back to a.  In one more
\* directory a's value reads INCLUDE_DIRECTORIES of b twice, and b links c.
TargetWorlds ==
  {[PlainMakefile EXCEPT
      !.targets = (<<"a">> :> Library(ownA, linksA))
                  @@ (<<"b">> :> Library(ownB, linksB))
                  @@ (<<"c">> :> Library(ownC, linksC))] :
     ownA \in OwnValues(<<"a">>, {<<"a">>, <<"b">>}),
     ownB \in OwnValues(<<"b">>, {<<"a">>, <<"c">>}),
     ownC \in OwnValues(<<"c">>, {}),
     linksA \in LinkLists(Names),
     linksB \in LinkLists({<<"a">>, <<"c">>}),
     linksC \in LinkLists({<<"a">>})}
  \cup {[PlainMakefile EXCEPT
           !.targets = (<<"a">> :> Library(SubSeq(RepeatedReads, 1, 2), <<>>))
                       @@ (<<"b">> :> Library(<<Text(Directory(<<"b">>))>>,
                                              << <<"c">> >>))
                       @@ (<<"c">> :> Library(<<Text(Directory(<<"c">>))>>,
                                              <<>>))]}

TargetJobs ==
  {Job(<<InterfaceRead(<<"a">>)>>, Str.sDebug, FALSE, head, head, NullDag) :
     head \in {NullTarget, <<"a">>}}
  \cup {Job(<<Op(Str.sTARGET_PROPERTY, << <<Text(Str.sINCLUDE_DIRECTORIES)>> >>)>>,
            Str.sDebug, FALSE, <<"a">>, <<"a">>, NullDag)}
  \cup {Job(RepeatedReads, Str.sDebug, FALSE, <<"a">>, <<"a">>,
            <<DagFrame(<<"a">>, Str.sIID, FALSE)>>)}

InitTargets == Idle(TargetWorlds)

NextTargets ==
  \/ \E job \in TargetJobs : EvaluateTop(job)
  \/ Release

SpecTargets == InitTargets /\ [][NextTargets]_vars

(***************************************************************************)
(* The specification of the operators that compare their parameters or     *)
(* query the build context: requests of one operator with literal          *)
(* parameters, in directories that differ in what the operators read.      *)
(***************************************************************************)
\* An imported library whose MAP_IMPORTED_CONFIG_DEBUG is "release;x"; located
\* tells whether GetMappedConfig finds a location for it.
ImportedLibrary(located) ==
  [PlainTarget("SHARED_LIBRARY") EXCEPT
     !.imported = TRUE,
     !.mappedConfig = located,
     !.properties = (Str.sMAP_IMPORTED_CONFIG_ \o UpperCase(Str.sDebug)
                       :> <<Text(Str.srelease_x)>>)]

\* The targets: a, a static library of the project that has the mapping of an
\* imported one; imp, an imported library with a location; nol, one without,
\* on a DLL platform; e, an executable; u, a custom target; o, an object
\* library of two object files; o0, one of none; p, a static library, and q,
\* an imported one, with the properties of DeclaredLibrary.
\* DeclaredLibrary is a library whose properties x, B, S, N, M, LINK_LIBRARIES and
\* INCLUDE_DIRECTORIES are set to "$<1:x>", and which declares B and b as the
\* bool, S and s as the string, N and n as the number-min and M as the
\* number-max properties that depend on its link interface; b, s, n and u
\* are not set.
OperatorTargets ==
  LET DeclaredLibrary(imported) ==
        [PlainTarget("STATIC_LIBRARY") EXCEPT
           !.imported = imported,
           !.properties =
              [name \in {Str.sx, <<"B">>, <<"S">>, <<"N">>, <<"M">>,
                         Str.sLINK_LIBRARIES, Str.sINCLUDE_DIRECTORIES}
                 |-> <<Op(s1, << <<Text(Str.sx)>> >>)>>],
           !.linkInterfaceDependent =
              (<<"B">> :> [kind |-> "bool", value |-> s1])
              @@ (<<"b">> :> [kind |-> "bool", value |-> s0])
              @@ (<<"S">> :> [kind |-> "string", value |-> <<"v">>])
              @@ (<<"s">> :> [kind |-> "string", value |-> <<"v">>])
              @@ (<<"N">> :> [kind |-> "min", value |-> <<"2">>])
              @@ (<<"n">> :> [kind |-> "min", value |-> <<"2">>])
              @@ (<<"M">> :> [kind |-> "max", value |-> <<"3">>])]
  IN (<<"a">> :> [PlainTarget("STATIC_LIBRARY") EXCEPT
                 !.properties = ImportedLibrary(TRUE).properties])
     @@ (<<"i","m","p">> :> ImportedLibrary(TRUE))
     @@ (<<"n","o","l">> :> [ImportedLibrary(FALSE) EXCEPT !.dllPlatform = TRUE])
     @@ (<<"e">> :> PlainTarget("EXECUTABLE"))
     @@ (<<"u">> :> PlainTarget("UTILITY"))
     @@ (<<"o">> :> [PlainTarget("OBJECT_LIBRARY") EXCEPT
                    !.objectNames = << <<"1">>, <<"2", ".", "o">> >>])
     @@ (<<"o", "0">> :> PlainTarget("OBJECT_LIBRARY"))
     @@ (<<"p">> :> DeclaredLibrary(FALSE))
     @@ (<<"q">> :> DeclaredLibrary(TRUE))

\* The directories: the compilers are GNU 1.2 for C and Clang 2 for C++, the
\* compiler records no features for C++ in one of them, and policy CMP0044 has
\* each of its settings.
OperatorWorlds ==
  {[PlainMakefile EXCEPT
      !.targets = OperatorTargets,
      !.aliases = (<<"l">> :> <<"a">>),
      !.definitions = ("CMAKE_CXX_COMPILER_ID" :> Str.sClang)
                      @@ ("CMAKE_C_COMPILER_VERSION" :> Str.s1_2)
                      @@ ("CMAKE_CXX_COMPILER_VERSION" :> <<"2">>)
                      @@ @,
      !.features.available = langs,
      !.policies.CMP0044 = status] :
     status \in {"OLD", "WARN", "NEW"}, langs \in {{Str.sC, Str.sCXX}, {Str.sC}}}

\* The frame of a target's evaluation of its link libraries.
LinkLibrariesDag(target) == <<DagFrame(target, Str.sLINK_LIBRARIES, FALSE)>>

\* $<IF:c,x,-> for c "0", "1" and others; the five version comparisons the
\* documentation names of every pair of the versions 1.2, 1.2.0, 1.2.1, 1.10,
\* 2 and 01.2; $<CONFIG:name> under each config and current target; the
\* queries of compiler, platform, features, policies and properties with and
\* without a head target; $<LINK_ONLY:x> without and under frames whose
\* transitive-properties-only flags differ; the files of targets of each
\* kind, of an alias, of no target and of an ill-formed name, without and
\* under frames that evaluate link libraries and sources; the objects of
\* targets for and not for the build system; properties of the
\* target a, of its alias l and of z, which names no target.
OperatorJobs ==
  LET Query(id, ps, head, dag) ==
        Job(<<Op(id, [i \in DOMAIN ps |-> <<Text(ps[i])>>])>>,
            Str.sDebug, FALSE, head, head, dag)
      Heads == {NullTarget, <<"a">>}
      Ids == {Str.sGNU, Str.sgnu, Str.sClang, Str.sclang, Str.sLinux,
              Str.slinux, Str.sx, Str.sDash, Empty}
      VersionIdentifiers ==
        {Str.sVERSION_LESS, Str.sVERSION_GREATER, Str.sVERSION_EQUAL,
         Str.sVERSION_LESS_EQUAL, Str.sVERSION_GREATER_EQUAL}
      Versions ==
        {<<"1",".","2">>, <<"1",".","2",".","0">>, <<"1",".","2",".","1">>,
         <<"1",".","1","0">>, <<"2">>, <<"0","1",".","2">>}
      ConfigNames ==
        {Str.sDebug, Str.sdebug, Str.sRelease, UpperCase(Str.sRelease),
         Str.sx, Str.sDash, Empty}
  IN
  {Job(<<Op(Str.sIF, << <<c>>, <<Text(Str.sx)>>, <<Text(Str.sDash)>> >>)>>,
       Str.sDebug, FALSE, NullTarget, NullTarget, NullDag) : c \in Leaves}
  \cup {Job(<<Op(id, << <<Text(v1)>>, <<Text(v2)>> >>)>>,
            Str.sDebug, FALSE, NullTarget, NullTarget, NullDag) :
          id \in VersionIdentifiers, v1 \in Versions, v2 \in Versions}
  \cup {Job(<<Op(Str.sCONFIG, << <<Text(name)>> >>)>>,
            config, FALSE, current, current, NullDag) :
          name \in ConfigNames, config \in {Str.sDebug, Str.sRelease, Empty},
          current \in {NullTarget} \cup DOMAIN OperatorTargets}
  \cup {Job(<<Content(<<Op(Str.sCONFIG, << <<Text(Str.sDebug)>> >>)>>,
                      << <<Text(Str.sDEBUG_MODE)>> >>)>>,
            config, FALSE, NullTarget, NullTarget, NullDag) :
          config \in {Str.sDebug, Str.sRelease}}
  \cup {Query(id, ps, head, NullDag) :
          id \in {Str.sC_COMPILER_ID, Str.sCXX_COMPILER_ID, Str.sPLATFORM_ID},
          ps \in {<<>>} \cup {<<x>> : x \in Ids}, head \in Heads}
  \cup {Query(id, ps, head, NullDag) :
          id \in {Str.sC_COMPILER_VERSION, Str.sCXX_COMPILER_VERSION},
          ps \in {<<>>} \cup {<<v>> : v \in {Str.s1_2, Str.s1_2_0, <<"2">>,
                                               Str.sx, Empty}},
          head \in Heads}
  \cup {Query(Str.sCOMPILE_FEATURES, ps, head, dag) :
          ps \in {<<Str.sc_restrict>>, <<Str.scxx_auto_type>>,
                  <<Str.scxx_constexpr>>, <<Str.sx>>,
                  <<Str.sc_restrict, Str.scxx_constexpr>>},
          head \in Heads, dag \in {NullDag, LinkLibrariesDag(<<"a">>)}}
  \cup {Query(Str.sTARGET_POLICY, <<policy>>, head, NullDag) :
          policy \in {Str.sCMP0003, Str.sCMP0020, Str.sCMP0022, Str.sx},
          head \in Heads}
  \cup {Query(Str.sTARGET_PROPERTY, <<prop>>, head, NullDag) :
          prop \in {Str.sINCLUDE_DIRECTORIES, Str.sx, Str.sDash, Empty},
          head \in Heads}
  \cup {Query(Str.sLINK_ONLY, <<x>>, head, dag) :
          x \in {Str.sx, Str.srelease_x, Empty}, head \in Heads,
          dag \in {NullDag}
                  \cup {<<DagFrame(<<"a">>, Str.sLINK_LIBRARIES, only)>> :
                          only \in BOOLEAN}
                  \cup {<<DagFrame(<<"a">>, Str.sIID, only),
                          DagFrame(<<"i", "m", "p">>, Str.sIID, ~only)>> :
                          only \in BOOLEAN}}
  \cup {Query(id, <<name>>, <<"a">>, dag) :
          id \in {i \in DOMAIN nodeMap : nodeMap[i] \in TargetFilesystemArtifactNodes},
          name \in {<<"a">>, <<"l">>, <<"z">>, <<"e">>, <<"u">>, <<"i","m","p">>,
                    <<"n","o","l">>, <<"a"," ">>},
          dag \in {NullDag, LinkLibrariesDag(<<"a">>),
                   LinkLibrariesDag(<<"i","m","p">>),
                   <<DagFrame(<<"a">>, Str.sSOURCES, FALSE)>>,
                   <<DagFrame(<<"a">>, Str.sSOURCES, FALSE),
                     DagFrame(<<"e">>, Str.sSOURCES, FALSE)>>,
                   <<DagFrame(<<"a">>, Str.sSOURCES, FALSE),
                     DagFrame(<<"e">>, Str.sIID, FALSE)>>}}
  \cup {[Query(Str.sTARGET_OBJECTS, <<name>>, head, NullDag)
            EXCEPT !.forBuildsystem = flag] :
          name \in {<<"o">>, <<"o", "0">>, <<"a">>, <<"l">>, <<"u">>, <<"z">>,
                    Str.sDash, Empty},
          head \in Heads, flag \in BOOLEAN}
  \cup {Query(Str.sTARGET_PROPERTY, <<name, prop>>, head, dag) :
          name \in {<<"a">>, <<"l">>, <<"z">>},
          prop \in {Str.sALIASED_TARGET, Str.sLINKER_LANGUAGE,
                    Str.sINCLUDE_DIRECTORIES, Str.sx, Str.sDash, Empty},
          head \in Heads, dag \in {NullDag, LinkLibrariesDag(<<"a">>)}}
  \cup {Query(Str.sTARGET_PROPERTY, <<name, prop>>, head, dag) :
          name \in {<<"p">>, <<"q">>},
          prop \in {Str.sx, <<"B">>, <<"S">>, <<"N">>, <<"M">>,
                    Str.sLINK_LIBRARIES, Str.sINCLUDE_DIRECTORIES, Str.sIID,
                    <<"b">>, <<"s">>, <<"n">>, <<"u">>},
          head \in {NullTarget, <<"p">>},
          dag \in {NullDag, LinkLibrariesDag(<<"a">>), LinkLibrariesDag(<<"p">>),
                   <<DagFrame(<<"a">>, Str.sIID, FALSE)>>}}

InitOperators == Idle(OperatorWorlds)

NextOperators ==
  \/ \E job \in OperatorJobs : EvaluateTop(job)
  \/ Release

SpecOperators == InitOperators /\ [][NextOperators]_vars

(***************************************************************************)
(* Properties.                                                             *)
(***************************************************************************)
\* The entries of the history of a kind.
Entries(ev) == {i \in DOMAIN log : log[i].ev = ev}

\* C1: within one evaluation context HadError, once true, stays true until
\* the evaluation ends, and every Content node that returns while HadError is
\* true (the node in which the error occurred and every node around it)
\* returns the empty string, as does the evaluation as a whole.
C1_ErrorIsStickyAndReturnsEmpty ==
  /\ \A i \in DOMAIN log : \A j \in DOMAIN log :
       (i < j /\ log[i].cid = log[j].cid /\ log[i].err) => log[j].err
  /\ \A i \in DOMAIN log :
       (log[i].cid = 1 /\ log[i].err) => context.HadError
  /\ \A i \in Entries("return") : log[i].err => log[i].out = Empty
  /\ (pc = "done" /\ context.HadError) => Output = Empty

\* An error inside two nested Content nodes: the inner node and the node
\* around it have both returned with HadError true.
C1_Witness ==
  /\ pc = "done"
  /\ context.HadError
  /\ \E i \in Entries("return") : \E j \in Entries("return") :
       /\ i < j
       /\ log[i].err /\ log[j].err
       /\ log[i].cid = 1 /\ log[j].cid = 1
  /\ \E i \in Entries("invoke") : log[i].cid = 1

\* The request is one Content node whose identifier is literal text.
SingleOp ==
  /\ pc = "done"
  /\ Len(expr) = 1
  /\ expr[1].type = "Content"
  /\ Len(expr[1].ident) = 1
  /\ expr[1].ident[1].type = "Text"

TopIdentifier == expr[1].ident[1].text
TopNode == GetNode(TopIdentifier)
TopParams == expr[1].params

\* Every parameter of the request's node is one piece of literal text.
LiteralParams ==
  \A i \in DOMAIN TopParams :
    Len(TopParams[i]) = 1 /\ TopParams[i][1].type = "Text"

\* The invocations of operators in the request's own context.
TopInvocations == {i \in Entries("invoke") : log[i].cid = 1}

\* The number k of parameters written does not fit the arity of the node.
ArityViolated(node, k) ==
  LET n == NumExpectedParameters(node)
  IN \/ n = OneOrMoreParameters /\ k = 0
     \/ n = OneOrZeroParameters /\ k > 1
     \/ n >= 0 /\ ~AcceptsArbitraryContentParameter(node) /\ k # n
     \/ n >= 1 /\ AcceptsArbitraryContentParameter(node) /\ k < n

\* C7: an operator written with a number of parameters that its arity does
\* not allow (exact N, N = 0 included; OneOrMore with none; OneOrZero with
\* more than one) ends in a fatal error, returns the empty string and its
\* evaluator is not invoked.
C7_ArityMismatchIsFatal ==
  (/\ SingleOp
   /\ LiteralParams
   /\ TopNode # NullNode
   /\ ArityViolated(TopNode, Len(TopParams)))
  => (context.HadError /\ Output = Empty /\ TopInvocations = {})

\* $<COMMA:x> has returned "," without an error.
C7_CommaWithParameterAccepted ==
  /\ SingleOp
  /\ expr = <<Op(Str.sCOMMA, << <<Text(Str.sx)>> >>)>>
  /\ ~context.HadError
  /\ Output = sComma
  /\ TopInvocations # {}

\* C9: $<AND:...> and $<OR:...> with a parameter that is neither "0" nor "1"
\* end in a fatal error and return the empty string, wherever that parameter
\* stands and whatever the other parameters are.
C9_BooleanValidatesEveryParameter ==
  (/\ SingleOp
   /\ LiteralParams
   /\ TopIdentifier \in {Str.sAND, Str.sOR}
   /\ \E i \in DOMAIN TopParams : TopParams[i][1].text \notin {s0, s1})
  => (context.HadError /\ Output = Empty)

\* $<AND:0,x> has returned "0" without an error.
C9_AndShortCircuits ==
  /\ SingleOp
  /\ expr = <<Op(Str.sAND, << <<Text(s0)>>, <<Text(Str.sx)>> >>)>>
  /\ ~context.HadError
  /\ Output = s0

\* The evaluation of a list of evaluators on its own, in a context like the
\* request's.
EvaluatedAlone(evaluators) ==
  TopEvaluate(Job(evaluators, context.Config, context.Quiet, context.HeadTarget,
                  context.CurrentTarget, parentDag), 0, "fault").out

\* The parameters an arbitrary-content operator of arity n is to receive for
\* the parameter groups ps: the first n-1 groups evaluated one by one, then
\* the remaining groups evaluated and joined by commas.
ExpectedParameters(ps, n) ==
  [i \in 1..n |->
     IF i < n THEN EvaluatedAlone(ps[i])
     ELSE JoinList([j \in 1..(Len(ps) - n + 1) |-> EvaluatedAlone(ps[n + j - 1])],
                   sComma)]

\* C8: an operator that accepts arbitrary content and has arity N receives N
\* parameters: the first N-1 parameter groups evaluated one by one, and as
\* N-th the evaluations of all remaining groups joined by single commas; so
\* $<1:...> returns its whole content, commas included, and $<1:$<1:...>>
\* returns what $<1:...> returns.
C8_ArbitraryContentJoinsWithCommas ==
  (/\ SingleOp
   /\ TopNode # NullNode
   /\ AcceptsArbitraryContentParameter(TopNode)
   /\ GeneratesContent(TopNode)
   /\ Len(TopParams) >= NumExpectedParameters(TopNode)
   /\ ~context.HadError)
  => /\ TopInvocations # {}
     /\ LET last == CHOOSE i \in TopInvocations : \A j \in TopInvocations : j <= i
        IN /\ log[last].node = TopNode
           /\ log[last].params
                = ExpectedParameters(TopParams, NumExpectedParameters(TopNode))
     /\ TopIdentifier = s1
          => Output = ExpectedParameters(TopParams, 1)[1]
     /\ (/\ TopIdentifier = s1
         /\ Len(TopParams) = 1
         /\ Len(TopParams[1]) = 1
         /\ TopParams[1][1].type = "Content"
         /\ TopParams[1][1].ident = <<Text(s1)>>)
          => Output = EvaluatedAlone(TopParams[1])

\* $<1:p,q,r> has returned "p,q,r", and $<1:$<1:x>> has returned "x".
C8_Witness ==
  /\ SingleOp
  /\ ~context.HadError
  /\ \/ /\ expr = <<Op(s1, << <<Text(s0)>>, <<Text(Str.sx)>>, <<Text(s1)>> >>)>>
        /\ Output = <<"0", ",", "x", ",", "1">>
     \/ /\ expr = <<Op(s1, << <<Op(s1, << <<Text(Str.sx)>> >>)>> >>)>>
        /\ Output = Str.sx

\* The request just evaluated.
JobDone ==
  [Job(expr, context.Config, context.Quiet, context.HeadTarget,
       context.CurrentTarget, parentDag)
     EXCEPT !.forBuildsystem = context.EvaluateForBuildsystem]

\* C5: the result string and HadError of an evaluation are those of the same
\* evaluation in a process that has evaluated nothing before: nothing an
\* earlier evaluation left behind changes the outcome.
C5_ResultIndependentOfEarlierEvaluations ==
  pc = "done"
    => \E undefined \in NullCheckerReads :
         /\ Output = TopEvaluate(JobDone, 0, undefined).out
         /\ context.HadError = TopEvaluate(JobDone, 0, undefined).context.HadError

\* $<EQUAL:1,1> has failed in a process in which an earlier $<EQUAL> left
\* errno at ERANGE.
C5_EqualFailsAfterOverflow ==
  /\ pc = "done"
  /\ expr = <<Op(Str.sEQUAL, << <<Text(s1)>>, <<Text(s1)>> >>)>>
  /\ errno = ERANGE
  /\ context.HadError
  /\ Output = Empty

\* The digits of an integer literal read in a base: the number, negated (so
\* that the magnitude of LONG_MIN fits), or 1 when it does not fit a long.
RECURSIVE NegatedNumber(_, _, _, _)
NegatedNumber(digits, base, acc, least) ==
  IF digits = <<>> THEN acc
  ELSE IF acc = 1 THEN 1
  ELSE IF acc * base < least + DigitValue[Head(digits)] THEN 1
       ELSE NegatedNumber(Tail(digits), base, acc * base - DigitValue[Head(digits)],
                          least)

\* An integer literal as the documentation of $<EQUAL> describes it: an
\* optional sign, then decimal digits, or 0x and hexadecimal digits, or 0 and
\* octal digits, or 0b and binary digits; the number must fit a long.
IntegerLiteral(str) ==
  LET signed == str # <<>> /\ Head(str) \in {"-", "+"}
      negative == str # <<>> /\ Head(str) = "-"
      body == IF signed THEN Tail(str) ELSE str
      prefix2 == IF Len(body) >= 2 THEN SubSeq(body, 1, 2) ELSE <<>>
      base == IF prefix2 \in {<<"0","b">>, <<"0","B">>} THEN 2
              ELSE IF prefix2 \in {<<"0","x">>, <<"0","X">>} THEN 16
              ELSE IF Len(body) > 1 /\ Head(body) = "0" THEN 8
              ELSE 10
      digits == IF base \in {2, 16} THEN Drop(body, 2) ELSE body
      wellFormed == /\ digits # <<>>
                    /\ \A i \in DOMAIN digits : IsDigitOf(digits[i], base)
      negated == IF wellFormed
                 THEN NegatedNumber(digits, base, 0,
                                    IF negative THEN LONG_MIN ELSE -LONG_MAX)
                 ELSE 1
  IN [valid |-> wellFormed /\ negated # 1,
      num |-> IF negative THEN negated ELSE -negated]

\* C10: $<EQUAL:a,b> returns "1" or "0" as the integers a and b denote are
\* equal or not when both are integer literals that fit, and ends in a fatal
\* error with the empty string for every other input.
C10_EqualAcceptsExactlyIntegerLiterals ==
  (/\ SingleOp
   /\ TopIdentifier = Str.sEQUAL
   /\ LiteralParams
   /\ Len(TopParams) = 2)
  => LET a == IntegerLiteral(TopParams[1][1].text)
         b == IntegerLiteral(TopParams[2][1].text)
     IN IF a.valid /\ b.valid
        THEN ~context.HadError /\ Output = (IF a.num = b.num THEN s1 ELSE s0)
        ELSE context.HadError /\ Output = Empty

\* $<EQUAL:0b-1,-1> has returned "1" in a process whose errno was 0.
C10_SignAfterBinaryPrefixAccepted ==
  /\ SingleOp
  /\ expr = <<Op(Str.sEQUAL, << <<Text(<<"0","b","-","1">>)>>, <<Text(<<"-","1">>)>> >>)>>
  /\ errno = 0
  /\ ~context.HadError
  /\ Output = s1

\* The frames pushed during the evaluation: the history entries, whose out
\* is the chain of frames from the top frame to the frame pushed.
Frames == Entries("frame")

FramePair(frame) == <<frame.target, frame.property>>

\* C2: the evaluation of $<TARGET_PROPERTY:T,P> over link interfaces and
\* property values that form cycles ends, because its recursion is bounded:
\* the frames above a frame never repeat a (target, property) pair, so that no
\* chain is longer than the number of pairs plus one, and no whitelisted
\* pair is expanded twice under one top frame.
C2_RecursionIsBounded ==
  /\ \A i \in Frames :
       LET dag == log[i].out
       IN /\ \A j \in 1..(Len(dag) - 1) : \A k \in 1..(Len(dag) - 1) :
               j # k => FramePair(dag[j]) # FramePair(dag[k])
          /\ Len(dag) <= 2 * Cardinality(Names) + 1
  /\ \A i \in Entries("expand") : \A j \in Entries("expand") :
       (/\ log[i].id = log[j].id /\ log[i].params = log[j].params
        /\ log[i].params[1] \in targetPropertyTransitiveWhitelist)
         => i = j

\* A target in its own link interface, a cyclic reference and a pair reached
\* a second time, in an evaluation that has ended.
C2_Witness ==
  /\ pc = "done"
  /\ \E i \in DOMAIN Target(<<"a">>).linkInterface :
       Target(<<"a">>).linkInterface[i] = <<"a">>
  /\ \E i \in Frames : log[i].note = "CYCLIC_REFERENCE"
  /\ \E i \in Frames : log[i].note = "ALREADY_SEEN"
  /\ \E i \in Entries("expand") : Len(log[i].out) >= 3

\* The request reads INTERFACE_INCLUDE_DIRECTORIES of a by name and has
\* ended without an error.
InterfaceReadDone ==
  /\ pc = "done"
  /\ expr = <<InterfaceRead(<<"a">>)>>
  /\ ~context.HadError

\* What the evaluations started by the request's own TARGET_PROPERTY node
\* returned: that of the target's own value and that of the linked targets.
TopSubs(note) == {i \in Entries("sub") : log[i].cid = 1 /\ log[i].note = note}

OwnPart ==
  IF TopSubs("own") = {} THEN Empty
  ELSE log[CHOOSE i \in TopSubs("own") : TRUE].out

LinkedPart ==
  IF TopSubs("linked") = {} THEN Empty
  ELSE log[CHOOSE i \in TopSubs("linked") : TRUE].out

\* The targets read directly below the top frame by the evaluation of the
\* linked targets (the first evaluation the top node starts), in order.
LinkedReads ==
  LET F == {i \in Frames : log[i].cid = 2 /\ Len(log[i].out) = 2
                           /\ log[i].params = <<Str.sIID>>}
      seq == SelectSeq([i \in DOMAIN log |-> i], LAMBDA i : i \in F)
  IN [k \in DOMAIN seq |-> log[seq[k]].id]

\* C3 as stated: the result is the list of the target's own value and of the
\* linked targets' values, and it has no empty elements.
C3_ResultIsJoinWithoutEmptyElements ==
  InterfaceReadDone
    => /\ Output = StripEmptyListElements(OwnPart \o sSemi \o LinkedPart)
       /\ Output = StripEmptyListElements(Output)

\* C3 as amended: the result is the target's own value as evaluated (empty
\* elements kept), then, when the linked targets' values stripped of empty
\* elements are not empty, a ';' (if the own value is not empty) and those
\* stripped values; the linked targets' values are the INTERFACE_ property
\* read on each target of the link interface but the target itself, in order.
C3_ResultIsOwnValueThenStrippedLinked ==
  InterfaceReadDone
    => /\ Cardinality(TopSubs("own")) <= 1
       /\ Cardinality(TopSubs("linked")) <= 1
       /\ TopSubs("own") # {} <=> HasProperty(<<"a">>, Str.sIID)
       /\ TopSubs("linked") # {} <=> Target(<<"a">>).linkInterface # <<>>
       /\ Output =
            IF StripEmptyListElements(LinkedPart) # <<>>
            THEN OwnPart \o (IF OwnPart = <<>> THEN <<>> ELSE sSemi)
                 \o StripEmptyListElements(LinkedPart)
            ELSE OwnPart
       /\ Target(<<"a">>).linkInterface # <<>>
            => LinkedReads = SelectSeq(Target(<<"a">>).linkInterface,
                                       LAMBDA t : t # <<"a">>)

\* a with /A links b with /B and c with /C: the result is "/A;/B;/C".
C3_Witness ==
  /\ InterfaceReadDone
  /\ Target(<<"a">>).linkInterface = << <<"b">>, <<"c">> >>
  /\ OwnPart = Directory(<<"a">>)
  /\ Output = <<"/","A",";","/","B",";","/","C">>

\* a's value is "/A;$<TARGET_PROPERTY:b,INTERFACE_INCLUDE_DIRECTORIES>", b's
\* is "/B;$<TARGET_PROPERTY:a,INTERFACE_INCLUDE_DIRECTORIES>", neither links
\* anything, and the request with head a has ended.
MutualReferenceDone ==
  /\ pc = "done"
  /\ expr = <<InterfaceRead(<<"a">>)>>
  /\ context.HeadTarget = <<"a">>
  /\ HasProperty(<<"a">>, Str.sIID) /\ HasProperty(<<"b">>, Str.sIID)
  /\ ParseProperty(<<"a">>, Str.sIID)
       = <<Text(Directory(<<"a">>) \o sSemi), InterfaceRead(<<"b">>)>>
  /\ ParseProperty(<<"b">>, Str.sIID)
       = <<Text(Directory(<<"b">>) \o sSemi), InterfaceRead(<<"a">>)>>
  /\ Target(<<"a">>).linkInterface = <<>>
  /\ Target(<<"b">>).linkInterface = <<>>

\* C4 as stated: the mutually referring a and b give exactly "/A;/B" and no
\* error.
C4_MutualReferenceGivesExactlyAB ==
  MutualReferenceDone
    => Output = <<"/","A",";","/","B">> /\ ~context.HadError

\* C4 as amended: they give "/A;/B;": each directory once, nothing but the
\* empty string for the cyclic reference back to a (which leaves an empty
\* last element), and neither an error nor a message.
C4_MutualReferenceGivesABAndEmptyElement ==
  MutualReferenceDone
    => /\ Output = <<"/","A",";","/","B",";">>
       /\ ~context.HadError
       /\ messages = <<>>
       /\ \A i \in DOMAIN log : ~log[i].err
       /\ \E i \in Frames :
            /\ log[i].note = "CYCLIC_REFERENCE"
            /\ log[i].id = <<"a">>
            /\ Len(log[i].out) = 3

C4_Witness ==
  /\ MutualReferenceDone
  /\ Output = <<"/","A",";","/","B",";">>

\* The invocations of the operators that depend on the context, in the
\* request's evaluation and in the evaluations of property values it starts.
ContextSensitiveNodes ==
  {"configurationNode", "configurationTestNode", "targetPolicyNode"}

ContextSensitiveInvocations ==
  {i \in Entries("invoke") : log[i].node \in ContextSensitiveNodes}

\* Whether the context an entry was written in has a head target: the
\* request's context has the request's, and the evaluation of a property
\* value always has one (the caller's, or else the target read).
HasHeadTarget(i) == log[i].cid = 1 => context.HeadTarget # NullTarget

\* The invocations that go as far as the assignment of the flag.
SetsContextSensitive(i) ==
  CASE log[i].node = "configurationNode" -> TRUE
    [] log[i].node = "configurationTestNode"
         -> log[i].params = <<>> \/ MatchesWordChars(log[i].params[1])
    [] log[i].node = "targetPolicyNode" -> HasHeadTarget(i)
    [] OTHER -> FALSE

C6_InvalidConfigLeavesFlagUnset ==
  /\ pc = "done"
  /\ ~context.HadContextSensitiveCondition
  /\ context.HadError
  /\ \E i \in ContextSensitiveInvocations :
       log[i].node = "configurationTestNode" /\ log[i].params = <<Str.sDash>>

(***************************************************************************)
(* Properties of the operators that compare and query.                     *)
(***************************************************************************)
\* The literal text of the request's i-th parameter.
TopText(i) == TopParams[i][1].text

\* C11: $<IF:c,a,b> is a registered operator that returns a when c is "1",
\* returns b when c is "0", and ends in a fatal error when c is anything else.
C11_IfSelectsByCondition ==
  (/\ SingleOp
   /\ TopIdentifier = Str.sIF
   /\ LiteralParams
   /\ Len(TopParams) = 3)
  => /\ TopNode # NullNode
     /\ TopText(1) = s1 => (Output = TopText(2) /\ ~context.HadError)
     /\ TopText(1) = s0 => (Output = TopText(3) /\ ~context.HadError)
     /\ TopText(1) \notin {s0, s1} => (Output = Empty /\ context.HadError)

\* $<IF:1,x,-> has ended in the fatal error of an identifier that is not
\* registered; no operator was invoked.
C11_IfIsNotRegistered ==
  /\ SingleOp
  /\ expr = <<Op(Str.sIF, << <<Text(s1)>>, <<Text(Str.sx)>>, <<Text(Str.sDash)>> >>)>>
  /\ GetNode(Str.sIF) = NullNode
  /\ context.HadError
  /\ Output = Empty
  /\ TopInvocations = {}
  /\ messages = <<[kind |-> "FATAL_ERROR",
                   text |-> "Expression did not evaluate to a known generator expression"]>>

\* The order of two versions: -1, 0 or 1 as the first is less than, equal to
\* or greater than the second, the components compared as numbers from the
\* left and a missing component read as 0.
RECURSIVE VersionOrder(_, _)
VersionOrder(v1, v2) ==
  IF v1 = <<>> /\ v2 = <<>> THEN 0
  ELSE LET c1 == IF v1 = <<>> THEN 0 ELSE Head(v1)
           c2 == IF v2 = <<>> THEN 0 ELSE Head(v2)
       IN IF c1 < c2 THEN -1
          ELSE IF c1 > c2 THEN 1
          ELSE VersionOrder(IF v1 = <<>> THEN <<>> ELSE Tail(v1),
                            IF v2 = <<>> THEN <<>> ELSE Tail(v2))

\* The orders for which a version comparison answers "1".
VersionAnswers ==
  (Str.sVERSION_LESS :> {-1}) @@ (Str.sVERSION_GREATER :> {1})
  @@ (Str.sVERSION_EQUAL :> {0}) @@ (Str.sVERSION_LESS_EQUAL :> {-1, 0})
  @@ (Str.sVERSION_GREATER_EQUAL :> {0, 1})

\* C12: each of VERSION_LESS, VERSION_GREATER, VERSION_EQUAL,
\* VERSION_LESS_EQUAL and VERSION_GREATER_EQUAL is a registered operator of
\* two parameters that returns "1" or "0" as the component-wise comparison of
\* the two versions says, missing components read as 0.
C12_VersionComparisons ==
  (/\ SingleOp
   /\ TopIdentifier \in DOMAIN VersionAnswers
   /\ LiteralParams
   /\ Len(TopParams) = 2)
  => /\ TopNode # NullNode
     /\ NumExpectedParameters(TopNode) = 2
     /\ ~context.HadError
     /\ Output =
          IF VersionOrder(VersionComponents(TopText(1), 0),
                          VersionComponents(TopText(2), 0))
               \in VersionAnswers[TopIdentifier]
          THEN s1 ELSE s0

\* $<VERSION_LESS_EQUAL:1.2,1.2.0> has ended in a fatal error, while
\* VERSION_EQUAL is registered.
C12_LessEqualIsNotRegistered ==
  /\ SingleOp
  /\ expr = <<Op(Str.sVERSION_LESS_EQUAL,
                 << <<Text(<<"1",".","2">>)>>, <<Text(<<"1",".","2",".","0">>)>> >>)>>
  /\ GetNode(Str.sVERSION_LESS_EQUAL) = NullNode
  /\ GetNode(Str.sVERSION_EQUAL) # NullNode
  /\ context.HadError
  /\ Output = Empty

\* C12, the registered comparisons: VERSION_LESS, VERSION_GREATER and
\* VERSION_EQUAL return "1" or "0" as the component-wise comparison says.
C12_RegisteredVersionComparisons ==
  (/\ SingleOp
   /\ TopIdentifier \in {Str.sVERSION_LESS, Str.sVERSION_GREATER, Str.sVERSION_EQUAL}
   /\ LiteralParams
   /\ Len(TopParams) = 2)
  => /\ ~context.HadError
     /\ Output =
          IF VersionOrder(VersionComponents(TopText(1), 0),
                          VersionComponents(TopText(2), 0))
               \in VersionAnswers[TopIdentifier]
          THEN s1 ELSE s0

\* The request is $<CONFIG:name> with a literal name.
ConfigTestDone ==
  /\ SingleOp
  /\ TopIdentifier = Str.sCONFIG
  /\ LiteralParams
  /\ Len(TopParams) = 1

\* name is one of the non-empty elements of the current target's
\* MAP_IMPORTED_CONFIG_<ACTIVE> property, ignoring case.
ListedInMapping(name) ==
  LET mapProp == Str.sMAP_IMPORTED_CONFIG_ \o UpperCase(context.Config)
      elements == SplitList(GetProperty(context.CurrentTarget, mapProp), <<>>)
  IN /\ HasProperty(context.CurrentTarget, mapProp)
     /\ \E i \in DOMAIN elements :
          elements[i] # <<>> /\ StrCaseEqual(elements[i], name)

\* The current target is imported.
CurrentIsImported ==
  context.CurrentTarget # NullTarget /\ Target(context.CurrentTarget).imported

\* The request is $<$<CONFIG:Debug>:DEBUG_MODE>.
DebugModeDone ==
  /\ pc = "done"
  /\ expr = <<Content(<<Op(Str.sCONFIG, << <<Text(Str.sDebug)>> >>)>>,
                      << <<Text(Str.sDEBUG_MODE)>> >>)>>

\* C13 as stated: $<CONFIG:name> returns "1" exactly when name equals the
\* active config ignoring case (an empty active config: when name is empty)
\* or the current target is imported and lists name in its
\* MAP_IMPORTED_CONFIG_<ACTIVE>, and "0" otherwise; $<$<CONFIG:Debug>:DEBUG_MODE>
\* is "DEBUG_MODE" under Debug and empty under Release.
C13_ConfigTestMatchesOrIsMapped ==
  /\ ConfigTestDone
       => Output =
            IF \/ context.Config = <<>> /\ TopText(1) = <<>>
               \/ context.Config # <<>> /\ StrCaseEqual(TopText(1), context.Config)
               \/ context.Config # <<>> /\ CurrentIsImported
                  /\ ListedInMapping(TopText(1))
            THEN s1 ELSE s0
  /\ DebugModeDone
       => Output = IF context.Config = Str.sDebug THEN Str.sDEBUG_MODE ELSE Empty

\* C13 as amended: a name that does not match ^[A-Za-z0-9_]*$ is a fatal
\* error; for every other name the result is "1" exactly when name equals the
\* active config ignoring case (an empty active config: when name is empty)
\* or the current target is imported, GetMappedConfig finds a location for
\* the active config and name is listed in MAP_IMPORTED_CONFIG_<ACTIVE>, and
\* "0" otherwise, without an error.
C13_ValidConfigTestMatchesOrIsMappedWithLocation ==
  /\ (ConfigTestDone /\ ~MatchesWordChars(TopText(1)))
       => (context.HadError /\ Output = Empty)
  /\ (ConfigTestDone /\ MatchesWordChars(TopText(1)))
       => /\ ~context.HadError
          /\ Output =
               IF \/ context.Config = <<>> /\ TopText(1) = <<>>
                  \/ context.Config # <<>>
                     /\ StrCaseEqual(TopText(1), context.Config)
                  \/ context.Config # <<>> /\ CurrentIsImported
                     /\ Target(context.CurrentTarget).mappedConfig
                     /\ ListedInMapping(TopText(1))
               THEN s1 ELSE s0
  /\ DebugModeDone
       => Output = IF context.Config = Str.sDebug THEN Str.sDEBUG_MODE ELSE Empty

\* $<CONFIG:RELEASE> under Debug has returned "1" on the imported library imp
\* through its mapping "release;x".
C13_Witness ==
  /\ ConfigTestDone
  /\ ~context.HadError
  /\ Output = s1
  /\ context.Config = Str.sDebug
  /\ TopText(1) = UpperCase(Str.sRelease)
  /\ context.CurrentTarget = <<"i","m","p">>

\* The request is $<C_COMPILER_ID:X> or $<CXX_COMPILER_ID:X> with a head
\* target and a literal X that matches ^[A-Za-z0-9_]*$.
CompilerIdDone ==
  /\ SingleOp
  /\ TopIdentifier \in {Str.sC_COMPILER_ID, Str.sCXX_COMPILER_ID}
  /\ LiteralParams
  /\ Len(TopParams) = 1
  /\ context.HeadTarget # NullTarget
  /\ MatchesWordChars(TopText(1))

\* The compiler id the directory stores for the language of the request.
StoredCompilerId ==
  IF TopIdentifier = Str.sC_COMPILER_ID
  THEN Makefile.definitions["CMAKE_C_COMPILER_ID"]
  ELSE Makefile.definitions["CMAKE_CXX_COMPILER_ID"]

\* The warnings among the messages issued.
Warnings == {i \in DOMAIN messages : messages[i].kind = "AUTHOR_WARNING"}

PlatformIdDone ==
  /\ SingleOp
  /\ TopIdentifier = Str.sPLATFORM_ID
  /\ LiteralParams
  /\ Len(TopParams) = 1

\* C15 as stated: $<PLATFORM_ID:X> with an X that does not match
\* ^[A-Za-z0-9_]*$ is a fatal error, and an X that is CMAKE_SYSTEM_NAME only
\* ignoring case gets the policy-gated answer: "1" under OLD, "1" with a
\* warning under WARN, "0" under NEW.
C15_PlatformIdValidatesAndFallsBack ==
  PlatformIdDone
    => /\ ~MatchesWordChars(TopText(1))
            => (context.HadError /\ Output = Empty)
       /\ (TopText(1) # Makefile.definitions["CMAKE_SYSTEM_NAME"]
           /\ StrCaseEqual(TopText(1), Makefile.definitions["CMAKE_SYSTEM_NAME"]))
            => CASE Makefile.policies.CMP0044 = "OLD" -> Output = s1
                 [] Makefile.policies.CMP0044 = "WARN"
                      -> Output = s1 /\ Cardinality(Warnings) = 1
                 [] Makefile.policies.CMP0044 = "NEW" -> Output = s0

\* C15 as amended: $<PLATFORM_ID:X> returns "1" when X is CMAKE_SYSTEM_NAME
\* exactly and "0" for every other X, well-formed or not, whatever the
\* policies are; it reports no error and issues no message.
C15_PlatformIdComparesExactly ==
  PlatformIdDone
    => /\ Output = IF TopText(1) = Makefile.definitions["CMAKE_SYSTEM_NAME"]
                   THEN s1 ELSE s0
       /\ ~context.HadError
       /\ messages = <<>>

\* $<PLATFORM_ID:linux> has returned "0" without a message where the system
\* is Linux and the policy is OLD.
C15_Witness ==
  /\ PlatformIdDone
  /\ TopText(1) = Str.slinux
  /\ Makefile.definitions["CMAKE_SYSTEM_NAME"] = Str.sLinux
  /\ Makefile.policies.CMP0044 = "OLD"
  /\ Output = s0
  /\ ~context.HadError
  /\ messages = <<>>

\* The operators for binary targets only.
BinaryTargetsOnly ==
  {Str.sC_COMPILER_ID, Str.sCXX_COMPILER_ID, Str.sC_COMPILER_VERSION,
   Str.sCXX_COMPILER_VERSION, Str.sCOMPILE_FEATURES, Str.sTARGET_POLICY}

\* The request is one of these operators with literal parameters, or
\* $<TARGET_PROPERTY:prop>, and the evaluation has no head target.
HeadlessQueryDone ==
  /\ SingleOp
  /\ LiteralParams
  /\ context.HeadTarget = NullTarget
  /\ \/ TopIdentifier \in BinaryTargetsOnly
     \/ TopIdentifier = Str.sTARGET_PROPERTY /\ Len(TopParams) = 1

\* C16: without a head target C_COMPILER_ID, CXX_COMPILER_ID,
\* C_COMPILER_VERSION, CXX_COMPILER_VERSION, COMPILE_FEATURES, TARGET_POLICY
\* and $<TARGET_PROPERTY:prop> end in a fatal error and return the empty
\* string, whatever their parameters are: one fatal message is issued and
\* nothing else of the context changes.
C16_BinaryTargetsOnlyOperatorsNeedHeadTarget ==
  HeadlessQueryDone
    => /\ context.HadError
       /\ Output = Empty
       /\ Len(messages) = 1
       /\ messages[1].kind = "FATAL_ERROR"
       /\ context = [NewContext(context.Config, FALSE, NullTarget, NullTarget,
                                FALSE) EXCEPT !.HadError = TRUE]

\* Each of the seven operators has been invoked without a head target, with
\* a parameter that it accepts where there is a head target.
C16_Witness ==
  /\ HeadlessQueryDone
  /\ TopInvocations # {}
  /\ context.HadError
  /\ expr = <<Op(Str.sC_COMPILER_VERSION, << <<Text(Str.s1_2_0)>> >>)>>

(***************************************************************************)
(* Properties of $<TARGET_PROPERTY:...>.                                   *)
(***************************************************************************)
\* The history entry that follows entry i is the return of a
\* $<TARGET_PROPERTY:...> with the empty string; had-error is then as given.
ReturnsEmptyAfter(i, hadError) ==
  /\ i < Len(log)
  /\ log[i + 1].ev = "return"
  /\ log[i + 1].id = <<Text(Str.sTARGET_PROPERTY)>>
  /\ log[i + 1].out = Empty
  /\ log[i + 1].err = hadError

\* The history entry that follows entry i says that the evaluation of the
\* frame of entry i goes on.
ExpandsAfter(i) ==
  /\ i < Len(log)
  /\ log[i + 1].ev = "expand"
  /\ log[i + 1].out = log[i].out
  /\ log[i + 1].err = log[i].err

\* C17: the result of the check of the frame that $<TARGET_PROPERTY:...>
\* pushes decides what follows: a self reference is a fatal error; a cyclic
\* reference returns the empty string and leaves had-error as it was; a pair
\* already seen does the same when the property is on the transitive
\* whitelist and otherwise goes on as a frame with the result DAG does.
C17_DagCheckResultDecides ==
  \A i \in Frames :
    LET result == log[i].note
        whitelisted == log[i].params[1] \in targetPropertyTransitiveWhitelist
    IN /\ result = "SELF_REFERENCE" => ReturnsEmptyAfter(i, TRUE)
       /\ result = "CYCLIC_REFERENCE" => ReturnsEmptyAfter(i, log[i].err)
       /\ result = "ALREADY_SEEN" /\ whitelisted
            => ReturnsEmptyAfter(i, log[i].err)
       /\ result = "ALREADY_SEEN" /\ ~whitelisted => ExpandsAfter(i)
       /\ result = "DAG" => ExpandsAfter(i)
       /\ result = "SELF_REFERENCE" /\ ~context.Quiet
            => /\ messages # <<>>
               /\ messages[Len(messages)].kind = "FATAL_ERROR"

\* One evaluation in which all four results of the check have occurred, the
\* pair seen before both on and off the whitelist.
C17_Witness ==
  /\ pc = "done"
  /\ expr = RepeatedReads
  /\ context.HadError
  /\ \E i \in Frames : log[i].note = "SELF_REFERENCE"
  /\ \E i \in Frames : log[i].note = "CYCLIC_REFERENCE"
  /\ \E i \in Frames :
       /\ log[i].note = "ALREADY_SEEN"
       /\ log[i].params[1] \in targetPropertyTransitiveWhitelist
  /\ \E i \in Frames :
       /\ log[i].note = "ALREADY_SEEN"
       /\ log[i].params[1] = Str.sINCLUDE_DIRECTORIES
       /\ log[i + 1].ev = "expand"

\* The request is $<TARGET_PROPERTY:tgt,prop> with literal parameters, and
\* tgt is a well-formed name of no target.
UnknownTargetReadDone ==
  /\ SingleOp
  /\ LiteralParams
  /\ TopIdentifier = Str.sTARGET_PROPERTY
  /\ Len(TopParams) = 2
  /\ IsValidTargetName(TopParams[1][1].text)
  /\ FindTargetToUse(TopParams[1][1].text) = NullTarget

\* C18: $<TARGET_PROPERTY:tgt,prop> with a well-formed tgt that names no
\* target is a fatal error whose message quotes tgt, whatever prop is,
\* ALIASED_TARGET and LINKER_LANGUAGE included.
C18_UnknownTargetIsFatal ==
  UnknownTargetReadDone
    => /\ context.HadError
       /\ Output = Empty
       /\ messages = <<[kind |-> "FATAL_ERROR",
                        text |-> TargetNotFound(TopParams[1][1].text)]>>

\* $<TARGET_PROPERTY:z,ALIASED_TARGET>, where z names no target, has returned
\* the empty string without an error and without a message.
C18_AliasedTargetOfUnknownTargetIsSilent ==
  /\ UnknownTargetReadDone
  /\ TopParams[2][1].text = Str.sALIASED_TARGET
  /\ TopInvocations # {}
  /\ ~context.HadError
  /\ Output = Empty
  /\ messages = <<>>

\* Every other property of a target that does not exist is the fatal error.
C18_UnknownTargetIsFatalUnlessAliasedTarget ==
  (UnknownTargetReadDone /\ TopParams[2][1].text # Str.sALIASED_TARGET)
    => /\ context.HadError
       /\ Output = Empty
       /\ messages = <<[kind |-> "FATAL_ERROR",
                        text |-> TargetNotFound(TopParams[1][1].text)]>>

\* The request is $<LINK_ONLY:x> with a literal x and is over.
LinkOnlyOver ==
  /\ pc \in {"done", "crashed"}
  /\ expr \in {<<Op(Str.sLINK_ONLY, << <<Text(x)>> >>)>> :
                 x \in {Str.sx, Str.srelease_x, Empty}}

\* C19: $<LINK_ONLY:x> returns x when the evaluation around it is not
\* transitive-properties-only and the empty string when it is, also where
\* the evaluation is given no parent frame; it never faults and never sets
\* had-error.
C19_LinkOnlyFollowsTransitivePropertiesOnly ==
  LinkOnlyOver
    => /\ pc = "done"
       /\ ~context.HadError
       /\ messages = <<>>
       /\ Output = IF parentDag # NullDag /\ GetTransitivePropertiesOnly(parentDag)
                   THEN Empty ELSE TopText(1)

\* $<LINK_ONLY:x> evaluated without a parent frame has ended in a fault of
\* the process.
C19_LinkOnlyFaultsWithoutChecker ==
  /\ LinkOnlyOver
  /\ pc = "crashed"
  /\ parentDag = NullDag
  /\ TopInvocations # {}

\* Under a parent frame $<LINK_ONLY:x> is as the claim says.
C19_LinkOnlyUnderAFrame ==
  (LinkOnlyOver /\ parentDag # NullDag)
    => /\ pc = "done"
       /\ ~context.HadError
       /\ messages = <<>>
       /\ Output = IF GetTransitivePropertiesOnly(parentDag)
                   THEN Empty ELSE TopText(1)

(***************************************************************************)
(* Properties of the target-file artifacts.                                *)
(***************************************************************************)
\* The request is one of the nine operators with a literal name.
ArtifactQueryDone ==
  /\ SingleOp
  /\ LiteralParams
  /\ TopNode \in TargetFilesystemArtifactNodes
  /\ Len(TopParams) = 1

\* The target that the name of the request names, or null.
NamedTarget == FindTargetToUse(TopText(1))

\* The target t is what the frames dag evaluate the link libraries of, or the
\* top target whose sources they evaluate.
BeingEvaluated(t, dag) ==
  /\ dag # NullDag
  /\ DagTop(dag).target = t
  /\ \/ DagTop(dag).property = Str.sLINK_LIBRARIES
     \/ EvaluatingSources(dag)

ExecutableOrLibrary(t) ==
  Target(t).type \in {"EXECUTABLE", "STATIC_LIBRARY", "SHARED_LIBRARY",
                      "MODULE_LIBRARY", "UNKNOWN_LIBRARY"}

\* C20: a target-file operator whose named target does not exist, is not an
\* executable or library, or is being evaluated as a link library or as the
\* top target's sources ends in a fatal error with depend-targets and
\* all-targets as they were; otherwise the target is in both sets afterwards.
C20_ArtifactChecksThenRecordsTarget ==
  ArtifactQueryDone
    => IF \/ NamedTarget = NullTarget
          \/ ~ExecutableOrLibrary(NamedTarget)
          \/ BeingEvaluated(NamedTarget, parentDag)
       THEN /\ context.HadError
            /\ Output = Empty
            /\ context.DependTargets = {}
            /\ context.AllTargets = {}
       ELSE /\ NamedTarget \in context.DependTargets
            /\ NamedTarget \in context.AllTargets

\* $<TARGET_FILE:l>, where l is an alias of a, in the evaluation of the link
\* libraries of a has returned the file of a and recorded a.
C20_AliasOfTargetBeingEvaluatedAccepted ==
  /\ ArtifactQueryDone
  /\ TopIdentifier = Str.sTARGET_FILE
  /\ TopText(1) = <<"l">>
  /\ parentDag = LinkLibrariesDag(<<"a">>)
  /\ ~context.HadError
  /\ Output = GetFullPath(<<"a">>, FALSE)
  /\ context.DependTargets = {<<"a">>}
  /\ context.AllTargets = {<<"a">>}

\* With the name of the request compared to the name of the top frame's
\* target, as the code compares them, the operators are as the claim says.
C20_ArtifactChecksByNameThenRecordsTarget ==
  ArtifactQueryDone
    => IF \/ NamedTarget = NullTarget
          \/ ~ExecutableOrLibrary(NamedTarget)
          \/ BeingEvaluated(TopText(1), parentDag)
       THEN /\ context.HadError
            /\ Output = Empty
            /\ context.DependTargets = {}
            /\ context.AllTargets = {}
       ELSE /\ NamedTarget \in context.DependTargets
            /\ NamedTarget \in context.AllTargets

(***************************************************************************)
(* Properties of $<TARGET_OBJECTS:tgt>.                                    *)
(***************************************************************************)
\* The request is $<TARGET_OBJECTS:tgt> with a literal tgt.
ObjectsQueryDone ==
  /\ SingleOp
  /\ LiteralParams
  /\ TopIdentifier = Str.sTARGET_OBJECTS
  /\ Len(TopParams) = 1

\* The paths of the object files of target t.
ObjectPaths(t) ==
  [i \in DOMAIN Target(t).objectNames |->
     Target(t).objectDirectory \o Target(t).objectNames[i]]

\* C21: $<TARGET_OBJECTS:tgt> is a fatal error when the evaluation is not for
\* the build system, whatever tgt is; when it is, the operator is a fatal
\* error if tgt names no target or a target that is not an object library,
\* and otherwise returns the paths of the object files joined by ";".
C21_TargetObjectsForBuildsystemOnly ==
  ObjectsQueryDone
    => IF \/ ~context.EvaluateForBuildsystem
          \/ NamedTarget = NullTarget
          \/ Target(NamedTarget).type # "OBJECT_LIBRARY"
       THEN /\ context.HadError
            /\ Output = Empty
            /\ Len(messages) = 1
            /\ messages[1].kind = "FATAL_ERROR"
       ELSE /\ ~context.HadError
            /\ messages = <<>>
            /\ Output = JoinList(ObjectPaths(NamedTarget), sSemi)

\* $<TARGET_OBJECTS:o> for the build system has returned the two object
\* files of o, which are now external object sources of the directory.
C21_Witness ==
  /\ ObjectsQueryDone
  /\ TopText(1) = <<"o">>
  /\ context.EvaluateForBuildsystem
  /\ Output = <<"/", "o", "/", "1", ";", "/", "o", "/", "2", ".", "o">>
  /\ Cardinality(Makefile.sources) = 2

(***************************************************************************)
(* Properties of errors in nested evaluations.                             *)
(***************************************************************************)
\* Some context of the evaluation, the request's own or that of a property
\* value or of the linked targets, has had an error.
ErrorSomewhere == \E i \in DOMAIN log : log[i].err

\* The fatal messages handed to the diagnostic sink.
FatalMessages == {i \in DOMAIN messages : messages[i].kind = "FATAL_ERROR"}

\* C22: an evaluation that is not quiet hands at most one fatal message to
\* the diagnostic sink, however many erroneous sub-expressions the
\* expression and the property values it reads contain; a quiet evaluation
\* hands over none and still sets had-error.
C22_AtMostOneMessage ==
  pc = "done"
    => /\ ~context.Quiet => Cardinality(FatalMessages) <= 1
       /\ context.Quiet
            => FatalMessages = {} /\ (ErrorSomewhere => context.HadError)

\* COMPILE_DEFINITIONS of a, whose value is erroneous, has been read twice in
\* one evaluation that was not quiet: two fatal messages have been issued and
\* had-error is unset.
C22_TwoMessages ==
  /\ pc = "done"
  /\ ~context.Quiet
  /\ Cardinality(FatalMessages) = 2
  /\ ~context.HadError

\* A quiet evaluation issues no fatal message, and an error in the request's own
\* context sets had-error.
C22_QuietIssuesNoMessage ==
  (pc = "done" /\ context.Quiet)
    => /\ FatalMessages = {}
       /\ (\E i \in DOMAIN log : log[i].err /\ log[i].cid = 1) => context.HadError

\* A context that $<TARGET_PROPERTY:...> made for a property value or for
\* the linked targets has had an error.
NestedError == \E i \in DOMAIN log : log[i].err /\ log[i].cid > 1

\* C25: a fatal error inside an expression that $<TARGET_PROPERTY:...>
\* evaluates, the list of the linked targets' properties or the target's own
\* value, sets had-error in the context of the $<TARGET_PROPERTY:...> around
\* it, which returns the empty string: the caller of the evaluation sees
\* had-error and the empty string.
C25_NestedErrorReachesCaller ==
  (pc = "done" /\ NestedError) => context.HadError /\ Output = Empty

\* The value of INTERFACE_INCLUDE_DIRECTORIES of a target refers to itself:
\* the fatal message has been issued, and the evaluation has ended with
\* had-error unset and the directories found elsewhere as its result.
C25_NestedErrorLost ==
  /\ pc = "done"
  /\ NestedError
  /\ \E i \in Frames : log[i].note = "SELF_REFERENCE" /\ log[i].cid > 1
  /\ FatalMessages # {}
  /\ ~context.HadError
  /\ Output # Empty

\* An error in the request's own context does reach the caller.
C25_OwnErrorReachesCaller ==
  (pc = "done" /\ \E i \in DOMAIN log : log[i].err /\ log[i].cid = 1)
    => context.HadError /\ Output = Empty


(***************************************************************************)
(* The order in which a Content node evaluates its children.               *)
(***************************************************************************)
\* The entries between entry i and entry k that belong to the context of
\* entry i and are of the given kind.
Between(i, k, ev) ==
  {m \in (i + 1)..(k - 1) : log[m].ev = ev /\ log[m].cid = log[i].cid}

\* Every node entered between i and k has returned before k.
Balanced(i, k) ==
  Cardinality(Between(i, k, "enter")) = Cardinality(Between(i, k, "return"))

\* The entry at which the node entered at entry i returns.
Close(i) ==
  LET ends == {j \in (i + 1)..Len(log) :
                 /\ log[j].ev = "return" /\ log[j].cid = log[i].cid
                 /\ Balanced(i, j)}
  IN CHOOSE j \in ends : \A k \in ends : j <= k

\* The entries at which the children of the node entered at entry i are
\* entered.
ChildEnters(i) ==
  {k \in Between(i, Close(i), "enter") : Balanced(i, k)}

\* The Content nodes among the children of a Content node: those of the
\* identifier, then those of each parameter in order.
RECURSIVE ContentChildren(_, _)
ContentChildren(ident, params) ==
  SelectSeq(ident, LAMBDA e : e.type = "Content")
  \o (IF params = <<>> THEN <<>>
      ELSE ContentChildren(Head(params), Tail(params)))

\* The child entered at entry k failed: HadError, false when the child was
\* entered, is true when it returns.
FailedChild(k) == ~log[k].err /\ log[Close(k)].err

\* C28: a Content node evaluates its children from left to right, those of
\* the identifier and then those of each parameter in order; once HadError
\* becomes true while a child is evaluated no later child is evaluated, the
\* operator's evaluator is not invoked and the node does nothing more in its
\* context before it returns; the context the caller gets is then the one
\* that the children evaluated so far leave, evaluated without the node.
C28_ChildrenLeftToRightUntilError ==
  /\ \A i \in Entries("enter") :
       LET kids == ContentChildren(log[i].id, log[i].params)
       IN \A k \in ChildEnters(i) :
            LET n == Cardinality({m \in ChildEnters(i) : m <= k})
            IN /\ n <= Len(kids)
               /\ log[k].id = kids[n].ident
               /\ log[k].params = kids[n].params
               /\ FailedChild(k)
                    => /\ \A m \in ChildEnters(i) : m <= k
                       /\ Between(Close(k), Close(i), "invoke") = {}
                       /\ \A m \in (Close(k) + 1)..(Close(i) - 1) :
                            log[m].cid # log[i].cid
                       /\ log[Close(i)].out = Empty
  /\ (/\ pc = "done" /\ Len(expr) = 1 /\ expr[1].type = "Content"
      /\ \E k \in ChildEnters(1) : FailedChild(k))
       => context
            = TopEvaluate(
                [JobDone EXCEPT
                   !.expr = SubSeq(ContentChildren(expr[1].ident,
                                                   expr[1].params),
                                   1, Cardinality(ChildEnters(1)))],
                errno, "fault").context

\* $<AND:$<NOT:x>,$<CONFIG:x>> and the like: the first of two children has
\* failed, and the second, which would set the context-sensitive flag, was
\* not evaluated.
C28_Witness ==
  /\ pc = "done"
  /\ Len(expr) = 1
  /\ expr[1].type = "Content"
  /\ Len(ContentChildren(expr[1].ident, expr[1].params)) = 2
  /\ ContentChildren(expr[1].ident, expr[1].params)[2].ident
       = <<Text(Str.sCONFIG)>>
  /\ Cardinality(ChildEnters(1)) = 1
  /\ \E k \in ChildEnters(1) : FailedChild(k)
  /\ context.HadError
  /\ ~context.HadContextSensitiveCondition

\* A request $<0...> or $<INSTALL_INTERFACE...> has ended.
NoContentRequestDone ==
  /\ SingleOp
  /\ TopIdentifier \in {s0, Str.sINSTALL_INTERFACE}

\* C30: $<0:...> and $<INSTALL_INTERFACE:...> with at least one parameter
\* give the empty string and evaluate none of the children of their
\* parameters: the context is as it was created, also when the content holds
\* erroneous or context-sensitive expressions or reads properties of targets,
\* and no message is issued; with no parameter the evaluation is fatal.
C30_NoContentNodesSkipTheirParameters ==
  NoContentRequestDone
    => IF TopParams # <<>>
       THEN /\ Output = Empty
            /\ Entries("enter") = {1}
            /\ Entries("invoke") = {}
            /\ messages = <<>>
            /\ context = NewContext(context.Config, context.Quiet,
                                    context.HeadTarget, context.CurrentTarget,
                                    context.EvaluateForBuildsystem)
       ELSE /\ Output = Empty
            /\ context.HadError
            /\ (~context.Quiet
                  => /\ Len(messages) = 1
                     /\ messages[1].kind = "FATAL_ERROR"
                     /\ messages[1].text = "expression requires a parameter.")

\* $<INSTALL_INTERFACE:$<NOT:x>,$<CONFIG:x>>: an erroneous and a
\* context-sensitive expression in the parameters, and no error.
C30_Witness ==
  /\ NoContentRequestDone
  /\ TopIdentifier = Str.sINSTALL_INTERFACE
  /\ Len(TopParams) = 2
  /\ TopParams[1] = <<Op(Str.sNOT, << <<Text(Str.sx)>> >>)>>
  /\ TopParams[2] = <<Op(Str.sCONFIG, << <<Text(Str.sx)>> >>)>>
  /\ ~context.HadError
  /\ Output = Empty

\* A request $<TARGET_PROPERTY:tgt,prop> or $<TARGET_PROPERTY:prop> with
\* literal parameters has ended.
PropertyReadDone ==
  /\ SingleOp
  /\ TopIdentifier = Str.sTARGET_PROPERTY
  /\ LiteralParams
  /\ Len(TopParams) \in {1, 2}

\* The target and the property the request names.
ReadTarget ==
  IF Len(TopParams) = 1 THEN context.HeadTarget
  ELSE FindTargetToUse(TopParams[1][1].text)

ReadProperty == TopParams[Len(TopParams)][1].text

\* The request has passed the checks of its names and of its frame and reads
\* the property.
ReadsProperty ==
  /\ PropertyReadDone
  /\ Entries("expand") # {}

\* The raw value of the property read.
RawValue == UnparseSeq(Target(ReadTarget).properties[ReadProperty])

\* Neither the property nor its INTERFACE_ form is on the whitelist.
OffWhitelist(property) ==
  /\ property \notin targetPropertyTransitiveWhitelist
  /\ Str.sINTERFACE_ \o property \notin targetPropertyTransitiveWhitelist

\* The target declares the property as one of the given kinds of properties
\* that depend on the link interface.
Declared(target, property, kinds) ==
  /\ property \in DOMAIN Target(target).linkInterfaceDependent
  /\ Target(target).linkInterfaceDependent[property].kind \in kinds

\* The frame above the request evaluates link libraries.
UnderLinkLibraries ==
  /\ parentDag # NullDag
  /\ parentDag[1].property
       \in {Str.sLINK_LIBRARIES, Str.sINTERFACE_ \o Str.sLINK_LIBRARIES}

C26_MinMaxConsulted ==
  /\ ReadsProperty
  /\ ReadProperty \in DOMAIN Target(ReadTarget).properties
  /\ Declared(ReadTarget, ReadProperty, {"min"})
  /\ Output = <<"2">>
  /\ Output # RawValue

\* C27, as claimed: $<TARGET_PROPERTY:...> validates before it records: a
\* name is in seen-target-properties only when the target read is the head
\* target and the name is not empty and matches [A-Za-z0-9_]+, and an
\* evaluation that fails leaves seen-target-properties empty.
C27_ValidatesBeforeRecords ==
  PropertyReadDone
    => /\ \A name \in context.SeenTargetProperties :
            /\ name # <<>>
            /\ MatchesWordChars(name)
            /\ context.HeadTarget # NullTarget
            /\ ReadTarget = context.HeadTarget
       /\ (context.HadError /\ Entries("frame") = {})
            => context.SeenTargetProperties = {}

\* C27, as the code behaves: the name is recorded before it is checked; an
\* evaluation that fails because the property name is ill-formed or empty
\* has recorded that name.
C27_IllFormedNameRecorded ==
  /\ PropertyReadDone
  /\ context.HadError
  /\ Entries("frame") = {}
  /\ ReadTarget = context.HeadTarget
  /\ ReadProperty \in context.SeenTargetProperties
  /\ (ReadProperty = <<>> \/ ~MatchesWordChars(ReadProperty))

\* C27, the part that holds: a name is recorded only when the target read is
\* the head target, and it is the property name of the request.
C27_RecordsOnlyForHeadTarget ==
  PropertyReadDone
    => \A name \in context.SeenTargetProperties :
         /\ context.HeadTarget # NullTarget
         /\ ReadTarget = context.HeadTarget
         /\ name = ReadProperty

TransitiveReadDone ==
  /\ pc = "done"
  /\ parentDag = NullDag
  /\ Len(expr) = 1
  /\ TopIdentifier = Str.sTARGET_PROPERTY
  /\ \E i \in Frames :
       Len(log[i].out) = 1 /\ EvaluatingTransitiveProperty(log[i].out[1])

\* The (target, property) pairs of the history entries I.
PairsOf(I) == {<<log[i].id, log[i].params[1]>> : i \in I}

\* The entries of I whose property is on the transitive whitelist.
Whitelisted(I) ==
  {i \in I : log[i].params[1] \in targetPropertyTransitiveWhitelist}

\* C24, as claimed: in one top-level evaluation of a transitive
\* $<TARGET_PROPERTY:T,P>, the frames expanded are at most as many as the
\* distinct (target, property) pairs reached: no pair is expanded more than
\* once.
C24_NoPairExpandedTwice ==
  TransitiveReadDone
    => /\ Cardinality(Entries("expand")) <= Cardinality(PairsOf(Frames))
       /\ \A i \in Entries("expand") : \A j \in Entries("expand") :
            PairsOf({i}) = PairsOf({j}) => i = j

\* C24, amended: the frames expanded are at most as many as the distinct
\* pairs reached whose property is on the transitive whitelist plus the
\* frames pushed for a property that is not on it: a pair on the whitelist
\* is expanded once, a pair off the whitelist each time it is reached and
\* is not on the chain of frames above it.
C24_WhitelistedPairExpandedOnce ==
  TransitiveReadDone
    => /\ Cardinality(Entries("expand"))
            <= Cardinality(PairsOf(Whitelisted(Frames)))
               + Cardinality(Frames \ Whitelisted(Frames))
       /\ Cardinality(Whitelisted(Entries("expand")))
            = Cardinality(PairsOf(Whitelisted(Entries("expand"))))
       /\ \A i \in Frames \ Whitelisted(Frames) :
            log[i].note \in {"DAG", "ALREADY_SEEN"} => ExpandsAfter(i)

\* A pair on the whitelist reached twice and expanded once, and a pair off
\* the whitelist reached twice and expanded twice, in one evaluation.
C24_Witness ==
  /\ TransitiveReadDone
  /\ \E i \in Whitelisted(Frames) : log[i].note = "ALREADY_SEEN"
  /\ \E i \in Entries("expand") : \E j \in Entries("expand") :
       /\ i # j
       /\ PairsOf({i}) = PairsOf({j})
       /\ log[j].note = "ALREADY_SEEN"

(***************************************************************************)
(* Evaluations in parallel threads, each with a context of its own.  The   *)
(* static nodeMap of GetNode is the only state they share here: a thread   *)
(* tests nodeMap.empty(), inserts the entries one after the other when it  *)
(* found the map empty, and then looks its identifier up.  Nothing         *)
(* synchronises these accesses.                                            *)
(***************************************************************************)
\* The expressions of the threads: one Content node each, so one call of
\* GetNode per evaluation.  FOO is not registered.
ThreadJobs ==
  {Job(<<Op(id, << <<Text(Str.sx)>> >>)>>, Empty, TRUE, NullTarget, NullTarget,
       NullDag) :
     id \in {s1, Str.sUPPER_CASE, Str.sTARGET_NAME, Str.sFOO}}

\* Another thread is inserting into the nodeMap.
Racing(t) == \E u \in Threads \ {t} : threads[u].pc = "fill"

\* A thread starts to evaluate an expression and reaches GetNode.
Call(t, job) ==
  /\ threads[t].pc = "idle"
  /\ threads' = [threads EXCEPT ![t] = [IdleThread EXCEPT !.pc = "test",
                                                          !.job = job]]
  /\ UNCHANGED <<Makefile, errno, pc, expr, parentDag, context, Output,
                 messages, log, registry>>

\* if (nodeMap.empty())
TestEmpty(t) ==
  /\ threads[t].pc = "test"
  /\ threads' = [threads EXCEPT
                   ![t].pc = IF registry = {} THEN "fill" ELSE "find",
                   ![t].next = IF registry = {} THEN 1 ELSE 0]
  /\ UNCHANGED <<Makefile, errno, pc, expr, parentDag, context, Output,
                 messages, log, registry>>

\* nodeMap["..."] = &...Node; one statement.
Fill(t) ==
  /\ threads[t].pc = "fill"
  /\ registry' = registry \cup {Registration[threads[t].next]}
  /\ threads' = [threads EXCEPT
                   ![t].pc = IF threads[t].next = Len(Registration)
                             THEN "find" ELSE "fill",
                   ![t].next = @ + 1]
  /\ UNCHANGED <<Makefile, errno, pc, expr, parentDag, context, Output,
                 messages, log>>

\* nodeMap.find(identifier) over the entries that are in the map now, and
\* the rest of the evaluation, which touches the thread's own context only.
Lookup(t) ==
  /\ threads[t].pc = "find"
  /\ Bind(CompiledEvaluate(threads[t].job.expr, threads[t].job.config,
                           threads[t].job.quiet, threads[t].job.headTarget,
                           threads[t].job.currentTarget, threads[t].job.dag,
                           [Boot(0, "fault") EXCEPT !.registry = registry],
                           threads[t].job.forBuildsystem),
          LAMBDA r :
            threads' = [threads EXCEPT ![t].pc = "done",
                                       ![t].out = r.out,
                                       ![t].hadError = r.context.HadError])
  /\ UNCHANGED <<Makefile, errno, pc, expr, parentDag, context, Output,
                 messages, log, registry>>

\* An access to the nodeMap while another thread inserts into it is a data
\* race: the behaviour is undefined, and besides going on as above the
\* process can fault.
Fault(t) ==
  /\ threads[t].pc \in {"test", "fill", "find"}
  /\ Racing(t)
  /\ threads' = [u \in Threads |-> [threads[u] EXCEPT !.pc = "crashed"]]
  /\ UNCHANGED <<Makefile, errno, pc, expr, parentDag, context, Output,
                 messages, log, registry>>

InitThreads == Idle({PlainMakefile})

NextThreads ==
  \/ \E t \in Threads, job \in ThreadJobs : Call(t, job)
  \/ \E t \in Threads : TestEmpty(t)
  \/ \E t \in Threads : Fill(t)
  \/ \E t \in Threads : Lookup(t)
  \/ \E t \in Threads : Fault(t)

SpecThreads == InitThreads /\ [][NextThreads]_vars

\* The result of the thread's expression evaluated alone.
Alone(t) == TopEvaluate(threads[t].job, 0, "fault")

\* The thread has evaluated an expression whose identifier is registered.
RegisteredLookupDone(t) ==
  /\ threads[t].pc = "done"
  /\ threads[t].job.expr[1].ident[1].text \in DOMAIN nodeMap

\* C23: two evaluations run in parallel by different threads, each with a
\* context of its own, never fault and each has the result string and the
\* error state of the same evaluation run alone, also when both are the
\* first evaluations of the process: no lookup of a registered identifier
\* fails.
C23_ParallelAsAlone ==
  \A t \in Threads :
    /\ threads[t].pc # "crashed"
    /\ threads[t].pc = "done"
         => /\ threads[t].out = Alone(t).out
            /\ threads[t].hadError = Alone(t).context.HadError

\* C23, as the code behaves: a thread that finds the nodeMap non-empty while
\* another thread is still inserting looks its registered identifier up in
\* the part of the map built so far and fails.
C23_PartialRegistrySeen ==
  \E t \in Threads :
    /\ RegisteredLookupDone(t)
    /\ Racing(t)
    /\ threads[t].hadError
    /\ ~Alone(t).context.HadError
    /\ threads[t].out # Alone(t).out

====
